---- MODULE Spec2Model ----
(***************************************************************************)
(* Model of the data-synchronization store of the 3bros frontend           *)
(* (src/frontend/src/stores/index.ts): the reactive state slices, the      *)
(* asynchronous store actions with their suspension points, the scan poll  *)
(* loop, and the backend the actions talk to.                              *)
(*                                                                         *)
(* Every asynchronous activity runs in a call slot.  A slot records which  *)
(* store action it runs, where the action is suspended (pc), and the       *)
(* response of the request it awaits (st = "none" while the request is in  *)
(* flight, "ok"/"fail" once the backend has answered and the answer has    *)
(* not been handled yet).  One TLA+ action is one run-to-suspension step   *)
(* of the single JavaScript thread.                                        *)
(***************************************************************************)
EXTENDS Integers, Sequences, FiniteSets, TLC

\* ---------------------------------------------------------------- bounds
\* number of asynchronous activities that may overlap
MaxCalls == 2
\* number of store actions invoked in one behaviour; the n-th invocation
\* carries request number n
MaxRequests == 3
\* number of scans started in one behaviour of the scan family
ScanRequests == 2
\* the same two bounds for the whole store, where all families interleave
StoreCalls == 1
StoreRequests == 2
\* invocations of mutating actions per behaviour
MutateRequests == 2
\* longest kline sequence, and longest list of support or of resistance
\* lines, of a kline response
MaxKlines == 2
MaxLines == 1
\* loads of kline data per behaviour of the KLineChart component
ChartRequests == 3
\* codes the chart component is given
MaxChartCodes == 2
\* keywords typed into a search box, and search requests per behaviour
MaxKeywords == 2
SearchRequests == 2
\* invocations per behaviour when every action of the store may be invoked
AllRequests == 2
\* number of instruments a scan task processes
TaskTotal == 1
\* number of distinct arguments (stock code, ETF code, settings data) the view
\* layer passes to a mutating action
MaxCodes == 1

CallIds == 1..MaxCalls
StoreCallIds == 1..StoreCalls
ReqIds == 1..MaxRequests
Codes == 1..MaxCodes

\* ---------------------------------------------------------------- values
\* ref<ScanTaskInfo | null>(null): task_id 0 stands for null
NoTask == [task_id |-> 0, status |-> "none", processed |-> 0]

\* ref<string | null>(null)
NoError == << >>

\* ref<StrategyAnalysis | null>(null)
NoAnalysis == << >>

\* ref<Settings>({ serverchan_configured: false })
InitialSettings == <<"settings", 0>>

\* longest watchlist the backend returns
MaxItems == 2

\* StockSignalSummary.action: 买入, 加仓, 卖出, 减仓, 持有
StockActions == <<"buy", "add", "sell", "reduce", "hold">>

\* payload of the response to request n, by the field the store reads
WatchlistItems(n) ==
  [i \in 1..(n % (MaxItems + 1)) |->
     [code |-> 10 * n + i, action |-> StockActions[((n + i) % 5) + 1]]]
IndicesOf(n) == <<"indices", n>>
UpdateTimeOf(n) == <<"update_time", n>>
BuySignalsOf(n) == <<"buy_signals", n>>
SellSignalsOf(n) == <<"sell_signals", n>>
EtfItemsOf(n) == <<"etf_items", n>>
PopularItemsOf(n) == <<"popular_items", n>>
SettingsOf(n) == <<"settings", n>>
AnalysisOf(api, n) == <<"analysis", api, n>>

NonTerminal == {"pending", "running"}
Terminal == {"completed", "failed"}

\* e.message of the rejection of request n, issued by store action act
MessageOf(act, n) == <<act, n>>

\* the record the backend holds for task t
TaskRecord(t, rec) == [task_id |-> t, status |-> rec.status, processed |-> rec.processed]

VARIABLES
  \* store state (stores/index.ts:18-47)
  loading, error, watchlist, watchlistLoading, indices, indicesUpdateTime,
  todayBuySignals, todaySellSignals, scanTask, scanPolling, etfWatchlist,
  popularEtfs, settings, currentAnalysis,
  \* asynchronous activities, the request counter and the number of
  \* invocations the view layer makes in this behaviour
  calls, reqSeq, budget,
  \* backend: the scan tasks by task id
  tasks,
  \* history: ids of the tasks of which the store has held a terminal record,
  \* the last scan response the store received, and the id of the task whose
  \* descriptor a fulfilled startScan stored last
  terminalIds, lastResp, lastStarted,
  \* what the invocations with a return value have returned to their callers,
  \* by invocation number
  results,
  \* KLineChart component: its refs klineData, loading and error, and its
  \* prop code (0 for the empty string)
  klineData, chartLoading, chartError, propsCode,
  \* history: the evaluations of the computed chartOption, each as the triple
  \* of the klineData it read, the option it returned and the number of
  \* requests issued before it
  built,
  \* search box of the watchlist page and of the ETF page: the refs
  \* searchKeyword (0 for a blank keyword) and searchResults, and the number
  \* of debounce timers set and neither fired nor cancelled
  searchKeyword, searchResults, searchTimers

slices == <<watchlist, indices, indicesUpdateTime, todayBuySignals, todaySellSignals,
            scanTask, etfWatchlist, popularEtfs, settings, currentAnalysis>>
flags == <<loading, watchlistLoading, scanPolling>>
scanHist == <<terminalIds, lastResp, lastStarted>>
chart == <<klineData, chartLoading, chartError, propsCode, built>>
search == <<searchKeyword, searchResults, searchTimers>>
vars == <<loading, error, watchlist, watchlistLoading, indices, indicesUpdateTime,
          todayBuySignals, todaySellSignals, scanTask, scanPolling, etfWatchlist,
          popularEtfs, settings, currentAnalysis, calls, reqSeq, budget, tasks,
          terminalIds, lastResp, lastStarted, results, klineData, chartLoading, chartError, propsCode, built,
          searchKeyword, searchResults, searchTimers>>

IdleCall == [act |-> "none", pc |-> "idle", inv |-> 0, req |-> 0, arg |-> 0, api |-> "none",
             st |-> "none", msg |-> NoError, val |-> 0, task |-> NoTask]

\* values an invocation hands to its caller: nothing yet, return true, return
\* false, an exception, the response of testNotify, { success: false, message }
NoResult == << >>
ReturnedTrue == <<"true">>
ReturnedFalse == <<"false">>
Thrown == <<"threw">>
NotifyResponse(n) == <<"notify", n>>
NotifyFailure(msg) == <<"failed", msg[1], msg[2]>>

NoBackendTask == [status |-> "none", processed |-> 0]

\* ref<KlineResponse | null>(null): code 0 stands for null
NoKlineData == [code |-> 0, klines |-> << >>, support_lines |-> << >>,
                resistance_lines |-> << >>]

\* ref(''): the empty string
NoChartError == << >>

\* KLineChart.vue lines 45-47: the refs of a component just set up
ChartMounted ==
  /\ klineData = NoKlineData
  /\ chartLoading = TRUE
  /\ chartError = NoChartError
  /\ propsCode = 0
  /\ built = {}

\* part_003 lines 146-148 and 475-477: ref(''), ref([]) and searchTimer = null
SearchMounted ==
  /\ searchKeyword = 0
  /\ searchResults = << >>
  /\ searchTimers = 0

\* the refs of the store just constructed
StoreConstructed ==
  /\ loading = FALSE
  /\ error = NoError
  /\ watchlist = << >>
  /\ watchlistLoading = FALSE
  /\ indices = << >>
  /\ indicesUpdateTime = << >>
  /\ todayBuySignals = << >>
  /\ todaySellSignals = << >>
  /\ scanTask = NoTask
  /\ scanPolling = FALSE
  /\ etfWatchlist = << >>
  /\ popularEtfs = << >>
  /\ settings = InitialSettings
  /\ currentAnalysis = NoAnalysis
  /\ calls = [c \in CallIds |-> IdleCall]
  /\ reqSeq = 0
  /\ tasks = [t \in ReqIds |-> NoBackendTask]
  /\ terminalIds = {}
  /\ lastResp = NoTask
  /\ lastStarted = 0
  /\ results = [n \in ReqIds |-> NoResult]

InitStore == StoreConstructed /\ ChartMounted /\ SearchMounted

\* the scan and all the loads together, with StoreRequests invocations
Init == InitStore /\ budget = StoreRequests

\* one family of store actions, with MaxRequests invocations
InitFamily == InitStore /\ budget = MaxRequests

\* the scan family, with ScanRequests invocations
InitScan == InitStore /\ budget = ScanRequests

\* ------------------------------------------------------------ call slots
\* a store action is invoked in slot c and issues request number reqSeq + 1
Begin(c, a, api) ==
  /\ calls[c].pc = "idle"
  /\ reqSeq < budget
  /\ reqSeq' = reqSeq + 1
  /\ budget' = budget
  /\ calls' = [calls EXCEPT ![c] = [IdleCall EXCEPT !.act = a, !.pc = "await",
                                                     !.inv = reqSeq + 1,
                                                     !.req = reqSeq + 1, !.api = api]]

\* slot c awaits a request of action a that the backend has not answered
InFlight(c, a, p) == calls[c].act = a /\ calls[c].pc = p /\ calls[c].st = "none"
\* slot c of action a resumes with a fulfilled / rejected request
Fulfilled(c, a, p) == calls[c].act = a /\ calls[c].pc = p /\ calls[c].st = "ok"
Rejected(c, a, p) == calls[c].act = a /\ calls[c].pc = p /\ calls[c].st = "fail"

Settle(c) == calls' = [calls EXCEPT ![c] = IdleCall]

\* the invocation in slot c settles and hands value to its caller
Return(c, value) ==
  /\ Settle(c)
  /\ results' = [results EXCEPT ![calls[c].inv] = value]

\* the mutating actions and the load each of them re-runs after its write
MutatingActions == {"addToWatchlist", "removeFromWatchlist", "addEtfToWatchlist",
                    "removeEtfFromWatchlist", "updateSettings"}
ReloadOf(a) ==
  CASE a \in {"addToWatchlist", "removeFromWatchlist"} -> "loadWatchlist"
    [] a \in {"addEtfToWatchlist", "removeEtfFromWatchlist"} -> "loadEtfWatchlist"
    [] a = "updateSettings" -> "loadSettings"
    [] OTHER -> "none"

\* the store function that issued the request slot c awaits
Requester(c) == IF calls[c].pc = "reload" THEN ReloadOf(calls[c].act) ELSE calls[c].act

\* slot c resumes load action a, called by the view or awaited by a mutating
\* action, with a fulfilled / rejected request
LoadFulfilled(c, a) ==
  /\ calls[c].st = "ok"
  /\ calls[c].pc \in {"await", "reload"}
  /\ Requester(c) = a
LoadRejected(c, a) ==
  /\ calls[c].st = "fail"
  /\ calls[c].pc \in {"await", "reload"}
  /\ Requester(c) = a

\* the load in slot c settles; a mutating action that awaited it returns true
\* (lines 68-69, 80-81, 179-180, 191-192, 212-213)
LoadSettlesFalse(c) ==
  IF calls[c].pc = "reload" THEN Return(c, IF calls[c].st = "ok" THEN ReturnedTrue
                                                                   ELSE ReturnedFalse)
                            ELSE Settle(c) /\ results' = results
LoadSettles(c) ==
  IF calls[c].pc = "reload" THEN Return(c, ReturnedTrue)
                            ELSE Settle(c) /\ results' = results

\* ----------------------------------------------------------- scan poller
\* pollScanStatus line 122: if (!scanTask.value || scanPolling.value) return
CanEnterPollUnguarded(task, polling) == task # NoTask
CanEnterPoll(task, polling) == ~(task = NoTask \/ polling)

\* loop condition, line 126
ShouldPollAnyStatus(task) == task # NoTask
ShouldPollPendingOnly(task) == task # NoTask /\ task.status = "pending"
ShouldPoll(task) == task # NoTask /\ task.status \in {"pending", "running"}

\* the history of a store write of a scan record
RecordScanWrite(rec) ==
  /\ lastResp' = rec
  /\ terminalIds' = IF rec.status \in Terminal THEN terminalIds \cup {rec.task_id}
                                                ELSE terminalIds

\* marketApi.getScanResult(scanTask.value.task_id) issued from slot c
IssueStatusRequest(c, task) ==
  calls' = [calls EXCEPT ![c] = [@ EXCEPT !.pc = "pollAwait", !.arg = task.task_id,
                                          !.st = "none", !.msg = NoError, !.task = NoTask]]

\* pollScanStatus() up to its first suspension, run with the task just stored
pollScanStatus(c, task) ==
  IF CanEnterPoll(task, scanPolling)
  THEN IF ShouldPoll(task)
       THEN scanPolling' = TRUE /\ IssueStatusRequest(c, task)
       ELSE scanPolling' = FALSE /\ Settle(c)
  ELSE scanPolling' = scanPolling /\ Settle(c)

\* startScan(limit) up to the await of marketApi.startScan
startScan(c) ==
  /\ Begin(c, "startScan", "market")
  /\ UNCHANGED <<slices, flags, error, budget, results, tasks, scanHist, chart, search>>

\* POST /market/scan: the backend creates a task with a fresh id and answers
\* with its descriptor
BackendStartScan(c) ==
  /\ InFlight(c, "startScan", "await")
  /\ LET t == calls[c].req
         rec == [status |-> "pending", processed |-> 0]
     IN /\ tasks' = [tasks EXCEPT ![t] = rec]
        /\ calls' = [calls EXCEPT ![c] = [@ EXCEPT !.st = "ok", !.task = TaskRecord(t, rec)]]
  /\ UNCHANGED <<slices, flags, error, reqSeq, budget, results, scanHist, chart, search>>

\* lines 113-114: the descriptor is stored and pollScanStatus() is called
startScanFulfilledKeepsActive(c) ==
  /\ Fulfilled(c, "startScan", "await")
  /\ LET stored == IF scanTask.status \in NonTerminal THEN scanTask ELSE calls[c].task
     IN /\ scanTask' = stored
        /\ RecordScanWrite(stored)
        /\ lastStarted' = stored.task_id
        /\ pollScanStatus(c, stored)
  /\ UNCHANGED <<loading, watchlistLoading, error, watchlist, indices, indicesUpdateTime,
                 todayBuySignals, todaySellSignals, etfWatchlist, popularEtfs, settings,
                 currentAnalysis, reqSeq, budget, results, tasks, chart, search>>
startScanFulfilled(c) ==
  /\ Fulfilled(c, "startScan", "await")
  /\ scanTask' = calls[c].task
  /\ RecordScanWrite(calls[c].task)
  /\ lastStarted' = calls[c].task.task_id
  /\ pollScanStatus(c, calls[c].task)
  /\ UNCHANGED <<loading, watchlistLoading, error, watchlist, indices, indicesUpdateTime,
                 todayBuySignals, todaySellSignals, etfWatchlist, popularEtfs, settings,
                 currentAnalysis, reqSeq, budget, results, tasks, chart, search>>

\* lines 115-117
startScanRejectedResets(c) ==
  /\ Rejected(c, "startScan", "await")
  /\ error' = calls[c].msg
  /\ scanTask' = NoTask
  /\ scanPolling' = FALSE
  /\ Settle(c)
  /\ UNCHANGED <<loading, watchlistLoading, watchlist, indices, indicesUpdateTime,
                 todayBuySignals, todaySellSignals, etfWatchlist, popularEtfs, settings,
                 currentAnalysis, reqSeq, budget, results, tasks, scanHist, chart, search>>
startScanRejected(c) ==
  /\ Rejected(c, "startScan", "await")
  /\ error' = calls[c].msg
  /\ Settle(c)
  /\ UNCHANGED <<slices, flags, reqSeq, budget, results, tasks, scanHist, chart, search>>

\* GET /market/scan/{task_id}: the backend answers with the task's record
BackendScanResult(c) ==
  /\ InFlight(c, "startScan", "pollAwait")
  /\ calls' = [calls EXCEPT ![c] = [@ EXCEPT !.st = "ok",
                                     !.task = TaskRecord(calls[c].arg, tasks[calls[c].arg])]]
  /\ UNCHANGED <<slices, flags, error, reqSeq, budget, results, tasks, scanHist, chart, search>>

\* line 128 resumed: the response replaces the record, then the 1000 ms timer starts
pollStoreSkipsDelay(c) ==
  /\ Fulfilled(c, "startScan", "pollAwait")
  /\ scanTask' = calls[c].task
  /\ RecordScanWrite(calls[c].task)
  /\ lastStarted' = lastStarted
  /\ IF ShouldPoll(calls[c].task)
     THEN scanPolling' = scanPolling /\ IssueStatusRequest(c, calls[c].task)
     ELSE scanPolling' = FALSE /\ Settle(c)
  /\ UNCHANGED <<loading, watchlistLoading, error, watchlist, indices,
                 indicesUpdateTime, todayBuySignals, todaySellSignals, etfWatchlist,
                 popularEtfs, settings, currentAnalysis, reqSeq, budget, results, tasks, chart, search>>
pollStore(c) ==
  /\ Fulfilled(c, "startScan", "pollAwait")
  /\ scanTask' = calls[c].task
  /\ RecordScanWrite(calls[c].task)
  /\ lastStarted' = lastStarted
  /\ calls' = [calls EXCEPT ![c] = [@ EXCEPT !.pc = "pollDelay", !.st = "none", !.task = NoTask]]
  /\ UNCHANGED <<loading, watchlistLoading, scanPolling, error, watchlist, indices,
                 indicesUpdateTime, todayBuySignals, todaySellSignals, etfWatchlist,
                 popularEtfs, settings, currentAnalysis, reqSeq, budget, results, tasks, chart, search>>

\* lines 130-132 and 135: a rejected status request breaks the loop
pollBreakRetries(c) ==
  /\ Rejected(c, "startScan", "pollAwait")
  /\ scanPolling' = scanPolling
  /\ IssueStatusRequest(c, scanTask)
  /\ UNCHANGED <<slices, loading, watchlistLoading, error, reqSeq, budget, results, tasks, scanHist, chart, search>>
pollBreak(c) ==
  /\ Rejected(c, "startScan", "pollAwait")
  /\ scanPolling' = FALSE
  /\ Settle(c)
  /\ UNCHANGED <<slices, loading, watchlistLoading, error, reqSeq, budget, results, tasks, scanHist, chart, search>>

\* line 129 resumed: the timer expires and the loop condition is evaluated again
pollTimerKeepsTaskId(c) ==
  /\ calls[c].act = "startScan" /\ calls[c].pc = "pollDelay"
  /\ IF ShouldPoll(scanTask)
     THEN scanPolling' = scanPolling
          /\ IssueStatusRequest(c, [scanTask EXCEPT !.task_id = calls[c].arg])
     ELSE scanPolling' = FALSE /\ Settle(c)
  /\ UNCHANGED <<slices, loading, watchlistLoading, error, reqSeq, budget, results, tasks, scanHist, chart, search>>
pollTimer(c) ==
  /\ calls[c].act = "startScan" /\ calls[c].pc = "pollDelay"
  /\ IF ShouldPoll(scanTask)
     THEN scanPolling' = scanPolling /\ IssueStatusRequest(c, scanTask)
     ELSE scanPolling' = FALSE /\ Settle(c)
  /\ UNCHANGED <<slices, loading, watchlistLoading, error, reqSeq, budget, results, tasks, scanHist, chart, search>>

\* the backend works on a task: pending -> running -> completed | failed
BackendAdvance(t) ==
  /\ tasks[t].status \in NonTerminal
  /\ \/ tasks[t].status = "pending"
        /\ tasks' = [tasks EXCEPT ![t].status = "running"]
     \/ tasks[t].status = "running" /\ tasks[t].processed < TaskTotal
        /\ tasks' = [tasks EXCEPT ![t].processed = @ + 1]
     \/ tasks[t].status = "running" /\ tasks[t].processed = TaskTotal
        /\ tasks' = [tasks EXCEPT ![t].status = "completed"]
     \/ tasks' = [tasks EXCEPT ![t].status = "failed"]
  /\ UNCHANGED <<slices, flags, error, calls, reqSeq, budget, results, scanHist, chart, search>>

\* any request in flight may be rejected (transport error, non-2xx, timeout)
BackendReject(c) ==
  /\ calls[c].pc \in {"await", "pollAwait", "write", "reload"}
  /\ calls[c].st = "none"
  /\ calls' = [calls EXCEPT ![c] = [@ EXCEPT !.st = "fail", !.msg = MessageOf(Requester(c), calls[c].req)]]
  /\ UNCHANGED <<slices, flags, error, reqSeq, budget, results, tasks, scanHist, chart, search>>

NextScanOf(C) ==
  \/ \E c \in C : startScan(c)
  \/ \E c \in C : BackendStartScan(c)
  \/ \E c \in C : startScanFulfilled(c)
  \/ \E c \in C : startScanRejected(c)
  \/ \E c \in C : BackendScanResult(c)
  \/ \E c \in C : pollStore(c)
  \/ \E c \in C : pollBreak(c)
  \/ \E c \in C : pollTimer(c)
  \/ \E t \in ReqIds : BackendAdvance(t)
  \/ \E c \in C : BackendReject(c)

NextScan == NextScanOf(CallIds)

SpecScan == InitScan /\ [][NextScan]_vars

\* one scan, no rejected request: the timer fires, every request is answered
\* and every answer is handled, and the backend keeps working on its task
InitScanOnce == InitStore /\ budget = 1

NextScanOnce ==
  \/ \E c \in CallIds : startScan(c)
  \/ \E c \in CallIds : BackendStartScan(c)
  \/ \E c \in CallIds : startScanFulfilled(c)
  \/ \E c \in CallIds : BackendScanResult(c)
  \/ \E c \in CallIds : pollStore(c)
  \/ \E c \in CallIds : pollTimer(c)
  \/ \E t \in ReqIds : BackendAdvance(t)

SpecScanOnce ==
  /\ InitScanOnce
  /\ [][NextScanOnce]_vars
  /\ \A c \in CallIds :
        /\ WF_vars(BackendStartScan(c))
        /\ WF_vars(startScanFulfilled(c))
        /\ WF_vars(BackendScanResult(c))
        /\ WF_vars(pollStore(c))
        /\ WF_vars(pollTimer(c))
  /\ \A t \in ReqIds : WF_vars(BackendAdvance(t))

\* a series of scans with no rejected request, under the same scheduling:
\* every request is answered, every answer is handled, the timer fires and
\* the backend brings every task to its end
ScanScheduling ==
  /\ \A c \in CallIds :
        /\ WF_vars(BackendStartScan(c))
        /\ WF_vars(startScanFulfilled(c))
        /\ WF_vars(BackendScanResult(c))
        /\ WF_vars(pollStore(c))
        /\ WF_vars(pollTimer(c))
  /\ \A t \in ReqIds : WF_vars(BackendAdvance(t))

SpecScanSeries == InitScan /\ [][NextScanOnce]_vars /\ ScanScheduling

\* ---------------------------------------------------------- read actions
ReadActions == {"loadWatchlist", "loadIndices", "loadTodaySignals", "loadAnalysis",
                "loadEtfWatchlist", "loadPopularEtfs", "loadSettings"}

\* a GET of a read action is answered: the response interceptor hands the
\* decoded payload of request n to the caller
BackendRespond(c) ==
  /\ \/ calls[c].act \in ReadActions \cup {"testNotify", "loadData", "search"}
        /\ calls[c].pc = "await"
     \/ calls[c].pc = "reload"
  /\ calls[c].st = "none"
  /\ calls' = [calls EXCEPT ![c] = [@ EXCEPT !.st = "ok", !.val = calls[c].req]]
  /\ UNCHANGED <<slices, flags, error, reqSeq, budget, results, tasks, scanHist, chart, search>>

\* loadWatchlist() up to the await, lines 53-55
loadWatchlistClearsError(c) ==
  /\ Begin(c, "loadWatchlist", "stock")
  /\ watchlistLoading' = TRUE
  /\ error' = NoError
  /\ UNCHANGED <<slices, loading, scanPolling, budget, results, tasks, scanHist, chart, search>>
loadWatchlist(c) ==
  /\ Begin(c, "loadWatchlist", "stock")
  /\ watchlistLoading' = TRUE
  /\ UNCHANGED <<slices, loading, scanPolling, error, budget, results, tasks, scanHist, chart, search>>

\* lines 56 and 60
loadWatchlistFulfilledMerges(c) ==
  /\ LoadFulfilled(c, "loadWatchlist")
  /\ watchlist' = watchlist \o WatchlistItems(calls[c].val)
  /\ watchlistLoading' = FALSE
  /\ LoadSettles(c)
  /\ UNCHANGED <<indices, indicesUpdateTime, todayBuySignals, todaySellSignals, scanTask,
                 etfWatchlist, popularEtfs, settings, currentAnalysis, loading, scanPolling,
                 error, reqSeq, budget, tasks, scanHist, chart, search>>
loadWatchlistFulfilled(c) ==
  /\ LoadFulfilled(c, "loadWatchlist")
  /\ watchlist' = WatchlistItems(calls[c].val)
  /\ watchlistLoading' = FALSE
  /\ LoadSettles(c)
  /\ UNCHANGED <<indices, indicesUpdateTime, todayBuySignals, todaySellSignals, scanTask,
                 etfWatchlist, popularEtfs, settings, currentAnalysis, loading, scanPolling,
                 error, reqSeq, budget, tasks, scanHist, chart, search>>

\* lines 58 and 60
loadWatchlistRejectedClears(c) ==
  /\ LoadRejected(c, "loadWatchlist")
  /\ error' = calls[c].msg
  /\ watchlist' = << >>
  /\ watchlistLoading' = FALSE
  /\ LoadSettles(c)
  /\ UNCHANGED <<indices, indicesUpdateTime, todayBuySignals, todaySellSignals, scanTask,
                 etfWatchlist, popularEtfs, settings, currentAnalysis, loading, scanPolling,
                 reqSeq, budget, tasks, scanHist, chart, search>>
loadWatchlistRejected(c) ==
  /\ LoadRejected(c, "loadWatchlist")
  /\ error' = calls[c].msg
  /\ watchlist' = watchlist
  /\ watchlistLoading' = FALSE
  /\ LoadSettles(c)
  /\ UNCHANGED <<indices, indicesUpdateTime, todayBuySignals, todaySellSignals, scanTask,
                 etfWatchlist, popularEtfs, settings, currentAnalysis, loading, scanPolling,
                 reqSeq, budget, tasks, scanHist, chart, search>>

\* loadIndices() up to the await, lines 90-91
loadIndices(c) ==
  /\ Begin(c, "loadIndices", "market")
  /\ UNCHANGED <<slices, flags, error, budget, results, tasks, scanHist, chart, search>>

\* lines 92-93
loadIndicesFulfilled(c) ==
  /\ Fulfilled(c, "loadIndices", "await")
  /\ indices' = IndicesOf(calls[c].val)
  /\ indicesUpdateTime' = UpdateTimeOf(calls[c].val)
  /\ Settle(c)
  /\ UNCHANGED <<watchlist, todayBuySignals, todaySellSignals, scanTask, etfWatchlist,
                 popularEtfs, settings, currentAnalysis, flags, error, reqSeq, budget, results, tasks, scanHist,
                 chart, search>>

\* line 95
loadIndicesRejectedKeepsFirst(c) ==
  /\ Rejected(c, "loadIndices", "await")
  /\ error' = IF error = NoError THEN calls[c].msg ELSE error
  /\ indices' = indices
  /\ indicesUpdateTime' = indicesUpdateTime
  /\ Settle(c)
  /\ UNCHANGED <<watchlist, todayBuySignals, todaySellSignals, scanTask, etfWatchlist,
                 popularEtfs, settings, currentAnalysis, flags, reqSeq, budget, results, tasks, scanHist,
                 chart, search>>
loadIndicesRejected(c) ==
  /\ Rejected(c, "loadIndices", "await")
  /\ error' = calls[c].msg
  /\ indices' = indices
  /\ indicesUpdateTime' = indicesUpdateTime
  /\ Settle(c)
  /\ UNCHANGED <<watchlist, todayBuySignals, todaySellSignals, scanTask, etfWatchlist,
                 popularEtfs, settings, currentAnalysis, flags, reqSeq, budget, results, tasks, scanHist,
                 chart, search>>

\* loadTodaySignals() up to the await, lines 101-102
loadTodaySignals(c) ==
  /\ Begin(c, "loadTodaySignals", "market")
  /\ UNCHANGED <<slices, flags, error, budget, results, tasks, scanHist, chart, search>>

\* lines 103-104
loadTodaySignalsFulfilled(c) ==
  /\ Fulfilled(c, "loadTodaySignals", "await")
  /\ todayBuySignals' = BuySignalsOf(calls[c].val)
  /\ todaySellSignals' = SellSignalsOf(calls[c].val)
  /\ Settle(c)
  /\ UNCHANGED <<watchlist, indices, indicesUpdateTime, scanTask, etfWatchlist,
                 popularEtfs, settings, currentAnalysis, flags, error, reqSeq, budget, results, tasks, scanHist,
                 chart, search>>

\* line 106
loadTodaySignalsRejected(c) ==
  /\ Rejected(c, "loadTodaySignals", "await")
  /\ error' = calls[c].msg
  /\ todayBuySignals' = todayBuySignals
  /\ todaySellSignals' = todaySellSignals
  /\ Settle(c)
  /\ UNCHANGED <<watchlist, indices, indicesUpdateTime, scanTask, etfWatchlist,
                 popularEtfs, settings, currentAnalysis, flags, reqSeq, budget, results, tasks, scanHist,
                 chart, search>>

\* loadAnalysis(code, type) up to the await, lines 140-146: type selects the API
loadAnalysisClearsFirst(c, type) ==
  /\ Begin(c, "loadAnalysis", IF type = "etf" THEN "etf" ELSE "stock")
  /\ loading' = TRUE
  /\ currentAnalysis' = NoAnalysis
  /\ UNCHANGED <<watchlist, indices, indicesUpdateTime, todayBuySignals, todaySellSignals,
                 scanTask, etfWatchlist, popularEtfs, settings, watchlistLoading,
                 scanPolling, error, budget, results, tasks, scanHist, chart, search>>
loadAnalysis(c, type) ==
  /\ Begin(c, "loadAnalysis", IF type = "etf" THEN "etf" ELSE "stock")
  /\ loading' = TRUE
  /\ UNCHANGED <<slices, watchlistLoading, scanPolling, error, budget, results, tasks, scanHist, chart, search>>

\* lines 143/145 and 151
loadAnalysisFulfilledDropsStale(c) ==
  /\ Fulfilled(c, "loadAnalysis", "await")
  /\ currentAnalysis' = IF calls[c].req = reqSeq
                        THEN AnalysisOf(calls[c].api, calls[c].val)
                        ELSE currentAnalysis
  /\ loading' = FALSE
  /\ Settle(c)
  /\ UNCHANGED <<watchlist, indices, indicesUpdateTime, todayBuySignals, todaySellSignals,
                 scanTask, etfWatchlist, popularEtfs, settings, watchlistLoading,
                 scanPolling, error, reqSeq, budget, results, tasks, scanHist, chart, search>>
loadAnalysisFulfilled(c) ==
  /\ Fulfilled(c, "loadAnalysis", "await")
  /\ currentAnalysis' = AnalysisOf(calls[c].api, calls[c].val)
  /\ loading' = FALSE
  /\ Settle(c)
  /\ UNCHANGED <<watchlist, indices, indicesUpdateTime, todayBuySignals, todaySellSignals,
                 scanTask, etfWatchlist, popularEtfs, settings, watchlistLoading,
                 scanPolling, error, reqSeq, budget, results, tasks, scanHist, chart, search>>

\* lines 148-149 and 151
loadAnalysisRejectedKeeps(c) ==
  /\ Rejected(c, "loadAnalysis", "await")
  /\ error' = calls[c].msg
  /\ currentAnalysis' = currentAnalysis
  /\ loading' = FALSE
  /\ Settle(c)
  /\ UNCHANGED <<watchlist, indices, indicesUpdateTime, todayBuySignals, todaySellSignals,
                 scanTask, etfWatchlist, popularEtfs, settings, watchlistLoading,
                 scanPolling, reqSeq, budget, results, tasks, scanHist, chart, search>>
loadAnalysisRejectedSkipsFinally(c) ==
  /\ Rejected(c, "loadAnalysis", "await")
  /\ error' = calls[c].msg
  /\ currentAnalysis' = NoAnalysis
  /\ loading' = loading
  /\ Settle(c)
  /\ UNCHANGED <<watchlist, indices, indicesUpdateTime, todayBuySignals, todaySellSignals,
                 scanTask, etfWatchlist, popularEtfs, settings, watchlistLoading,
                 scanPolling, reqSeq, budget, results, tasks, scanHist, chart, search>>
loadAnalysisRejected(c) ==
  /\ Rejected(c, "loadAnalysis", "await")
  /\ error' = calls[c].msg
  /\ currentAnalysis' = NoAnalysis
  /\ loading' = FALSE
  /\ Settle(c)
  /\ UNCHANGED <<watchlist, indices, indicesUpdateTime, todayBuySignals, todaySellSignals,
                 scanTask, etfWatchlist, popularEtfs, settings, watchlistLoading,
                 scanPolling, reqSeq, budget, results, tasks, scanHist, chart, search>>

\* loadEtfWatchlist() up to the await, lines 157-158
loadEtfWatchlist(c) ==
  /\ Begin(c, "loadEtfWatchlist", "etf")
  /\ UNCHANGED <<slices, flags, error, budget, results, tasks, scanHist, chart, search>>

\* line 159
loadEtfWatchlistFulfilled(c) ==
  /\ LoadFulfilled(c, "loadEtfWatchlist")
  /\ etfWatchlist' = EtfItemsOf(calls[c].val)
  /\ LoadSettles(c)
  /\ UNCHANGED <<watchlist, indices, indicesUpdateTime, todayBuySignals, todaySellSignals,
                 scanTask, popularEtfs, settings, currentAnalysis, flags, error, reqSeq,
                 budget, tasks, scanHist, chart, search>>

\* line 161
loadEtfWatchlistRejected(c) ==
  /\ LoadRejected(c, "loadEtfWatchlist")
  /\ error' = calls[c].msg
  /\ etfWatchlist' = etfWatchlist
  /\ LoadSettles(c)
  /\ UNCHANGED <<watchlist, indices, indicesUpdateTime, todayBuySignals, todaySellSignals,
                 scanTask, popularEtfs, settings, currentAnalysis, flags, reqSeq, budget, tasks,
                 scanHist, chart, search>>

\* loadPopularEtfs() up to the await, lines 167-168
loadPopularEtfs(c) ==
  /\ Begin(c, "loadPopularEtfs", "etf")
  /\ UNCHANGED <<slices, flags, error, budget, results, tasks, scanHist, chart, search>>

\* line 169
loadPopularEtfsFulfilled(c) ==
  /\ Fulfilled(c, "loadPopularEtfs", "await")
  /\ popularEtfs' = PopularItemsOf(calls[c].val)
  /\ Settle(c)
  /\ UNCHANGED <<watchlist, indices, indicesUpdateTime, todayBuySignals, todaySellSignals,
                 scanTask, etfWatchlist, settings, currentAnalysis, flags, error, reqSeq,
                 budget, results, tasks, scanHist, chart, search>>

\* line 171
loadPopularEtfsRejected(c) ==
  /\ Rejected(c, "loadPopularEtfs", "await")
  /\ error' = calls[c].msg
  /\ popularEtfs' = popularEtfs
  /\ Settle(c)
  /\ UNCHANGED <<watchlist, indices, indicesUpdateTime, todayBuySignals, todaySellSignals,
                 scanTask, etfWatchlist, settings, currentAnalysis, flags, reqSeq, budget, results, tasks,
                 scanHist, chart, search>>

\* loadSettings() up to the await, lines 201-202
loadSettings(c) ==
  /\ Begin(c, "loadSettings", "settings")
  /\ UNCHANGED <<slices, flags, error, budget, results, tasks, scanHist, chart, search>>

\* line 202
loadSettingsFulfilled(c) ==
  /\ LoadFulfilled(c, "loadSettings")
  /\ settings' = SettingsOf(calls[c].val)
  /\ LoadSettles(c)
  /\ UNCHANGED <<watchlist, indices, indicesUpdateTime, todayBuySignals, todaySellSignals,
                 scanTask, etfWatchlist, popularEtfs, currentAnalysis, flags, error, reqSeq,
                 budget, tasks, scanHist, chart, search>>

\* line 204
loadSettingsRejectedResets(c) ==
  /\ LoadRejected(c, "loadSettings")
  /\ error' = calls[c].msg
  /\ settings' = InitialSettings
  /\ LoadSettles(c)
  /\ UNCHANGED <<watchlist, indices, indicesUpdateTime, todayBuySignals, todaySellSignals,
                 scanTask, etfWatchlist, popularEtfs, currentAnalysis, flags, reqSeq, budget,
                 tasks, scanHist, chart, search>>
loadSettingsRejected(c) ==
  /\ LoadRejected(c, "loadSettings")
  /\ error' = calls[c].msg
  /\ settings' = settings
  /\ LoadSettles(c)
  /\ UNCHANGED <<watchlist, indices, indicesUpdateTime, todayBuySignals, todaySellSignals,
                 scanTask, etfWatchlist, popularEtfs, currentAnalysis, flags, reqSeq, budget, tasks,
                 scanHist, chart, search>>

\* the watchlist and analysis loads, the two actions with a loading flag
NextLoadOf(C) ==
  \/ \E c \in C : loadWatchlist(c)
  \/ \E c \in C : loadWatchlistFulfilled(c)
  \/ \E c \in C : loadWatchlistRejected(c)
  \/ \E c \in C : \E type \in {"stock", "etf"} : loadAnalysis(c, type)
  \/ \E c \in C : loadAnalysisFulfilled(c)
  \/ \E c \in C : loadAnalysisRejected(c)
  \/ \E c \in C : BackendRespond(c)
  \/ \E c \in C : BackendReject(c)

NextLoad == NextLoadOf(CallIds)

SpecLoad == InitFamily /\ [][NextLoad]_vars

\* the loads without a loading flag
NextPlainOf(C) ==
  \/ \E c \in C : loadIndices(c)
  \/ \E c \in C : loadIndicesFulfilled(c)
  \/ \E c \in C : loadIndicesRejected(c)
  \/ \E c \in C : loadTodaySignals(c)
  \/ \E c \in C : loadTodaySignalsFulfilled(c)
  \/ \E c \in C : loadTodaySignalsRejected(c)
  \/ \E c \in C : loadEtfWatchlist(c)
  \/ \E c \in C : loadEtfWatchlistFulfilled(c)
  \/ \E c \in C : loadEtfWatchlistRejected(c)
  \/ \E c \in C : loadPopularEtfs(c)
  \/ \E c \in C : loadPopularEtfsFulfilled(c)
  \/ \E c \in C : loadPopularEtfsRejected(c)
  \/ \E c \in C : loadSettings(c)
  \/ \E c \in C : loadSettingsFulfilled(c)
  \/ \E c \in C : loadSettingsRejected(c)
  \/ \E c \in C : BackendRespond(c)
  \/ \E c \in C : BackendReject(c)

NextPlain == NextPlainOf(CallIds)

SpecPlain == InitFamily /\ [][NextPlain]_vars

\* ------------------------------------------------------- mutating actions
\* a mutating action is invoked in slot c with argument code and issues its
\* write request, number reqSeq + 1
BeginWrite(c, a, api, code) ==
  /\ calls[c].pc = "idle"
  /\ reqSeq < budget
  /\ reqSeq' = reqSeq + 1
  /\ budget' = budget
  /\ calls' = [calls EXCEPT ![c] = [IdleCall EXCEPT !.act = a, !.pc = "write",
                                                     !.inv = reqSeq + 1, !.req = reqSeq + 1,
                                                     !.arg = code, !.api = api]]

\* addToWatchlist(code, name) up to the await of the POST, lines 66-67
addToWatchlist(c, code) ==
  /\ BeginWrite(c, "addToWatchlist", "stock", code)
  /\ UNCHANGED <<slices, flags, error, tasks, scanHist, results, chart, search>>

\* removeFromWatchlist(code) up to the await of the DELETE, lines 78-79
removeFromWatchlist(c, code) ==
  /\ BeginWrite(c, "removeFromWatchlist", "stock", code)
  /\ UNCHANGED <<slices, flags, error, tasks, scanHist, results, chart, search>>

\* addEtfToWatchlist(code, name) up to the await of the POST, lines 177-178
addEtfToWatchlist(c, code) ==
  /\ BeginWrite(c, "addEtfToWatchlist", "etf", code)
  /\ UNCHANGED <<slices, flags, error, tasks, scanHist, results, chart, search>>

\* removeEtfFromWatchlist(code) up to the await of the DELETE, lines 189-190
removeEtfFromWatchlist(c, code) ==
  /\ BeginWrite(c, "removeEtfFromWatchlist", "etf", code)
  /\ UNCHANGED <<slices, flags, error, tasks, scanHist, results, chart, search>>

\* updateSettings(data) up to the await of the PUT, lines 210-211
updateSettings(c, data) ==
  /\ BeginWrite(c, "updateSettings", "settings", data)
  /\ UNCHANGED <<slices, flags, error, tasks, scanHist, results, chart, search>>

\* the body { success: boolean } of the response to a write
WriteBody(success) == IF success THEN 1 ELSE 0

\* the backend answers a write with status 2xx and a body { success }
BackendAccept(c) ==
  /\ calls[c].pc = "write"
  /\ calls[c].st = "none"
  /\ \E success \in BOOLEAN :
       calls' = [calls EXCEPT ![c] = [@ EXCEPT !.st = "ok", !.val = WriteBody(success)]]
  /\ UNCHANGED <<slices, flags, error, reqSeq, budget, tasks, scanHist, results, chart, search>>

\* slot c issues the request of the load its action re-runs: request number
\* reqSeq + 1
IssueReload(c) ==
  /\ reqSeq' = reqSeq + 1
  /\ calls' = [calls EXCEPT ![c] = [@ EXCEPT !.pc = "reload", !.req = reqSeq + 1,
                                             !.st = "none", !.msg = NoError, !.val = 0]]
  /\ watchlistLoading' = IF ReloadOf(calls[c].act) = "loadWatchlist" THEN TRUE
                                                                      ELSE watchlistLoading

\* lines 68, 80, 179, 191, 212: the write is fulfilled and the action calls
\* its load, which runs up to its await
reloadAfterWritePatchesLocally(c) ==
  /\ calls[c].act \in MutatingActions
  /\ calls[c].pc = "write" /\ calls[c].st = "ok"
  /\ IssueReload(c)
  /\ watchlist' = IF calls[c].act = "addToWatchlist"
                  THEN Append(watchlist, [code |-> calls[c].arg, action |-> "hold"])
                  ELSE watchlist
  /\ UNCHANGED <<indices, indicesUpdateTime, todayBuySignals, todaySellSignals, scanTask,
                 etfWatchlist, popularEtfs, settings, currentAnalysis, loading, scanPolling,
                 error, budget, tasks, scanHist, results, chart, search>>
reloadAfterWriteTwice(c) ==
  /\ calls[c].act \in MutatingActions
  /\ calls[c].pc = "write" /\ calls[c].st = "ok"
  /\ reqSeq' = reqSeq + 2
  /\ calls' = [calls EXCEPT ![c] = [@ EXCEPT !.pc = "reload", !.req = reqSeq + 2,
                                             !.st = "none", !.msg = NoError, !.val = 0]]
  /\ watchlistLoading' = IF ReloadOf(calls[c].act) = "loadWatchlist" THEN TRUE
                                                                      ELSE watchlistLoading
  /\ UNCHANGED <<slices, loading, scanPolling, error, budget, tasks, scanHist, results, chart, search>>
reloadAfterWriteReturnsAtOnce(c) ==
  /\ calls[c].act \in MutatingActions
  /\ calls[c].pc = "write" /\ calls[c].st = "ok"
  /\ Return(c, ReturnedTrue)
  /\ UNCHANGED <<slices, flags, error, reqSeq, budget, tasks, scanHist, chart, search>>
reloadAfterWrite(c) ==
  /\ calls[c].act \in MutatingActions
  /\ calls[c].pc = "write" /\ calls[c].st = "ok"
  /\ IssueReload(c)
  /\ UNCHANGED <<slices, loading, scanPolling, error, budget, tasks, scanHist, results, chart, search>>

\* lines 70-72, 82-84, 181-183, 193-195, 214-216: the write is rejected
writeRejectedReloads(c) ==
  /\ calls[c].act \in MutatingActions
  /\ calls[c].pc = "write" /\ calls[c].st = "fail"
  /\ error' = calls[c].msg
  /\ IssueReload(c)
  /\ UNCHANGED <<slices, loading, scanPolling, budget, tasks, scanHist, results, chart, search>>
writeRejectedThrows(c) ==
  /\ calls[c].act \in MutatingActions
  /\ calls[c].pc = "write" /\ calls[c].st = "fail"
  /\ error' = error
  /\ Return(c, Thrown)
  /\ UNCHANGED <<slices, flags, reqSeq, budget, tasks, scanHist, chart, search>>
writeRejected(c) ==
  /\ calls[c].act \in MutatingActions
  /\ calls[c].pc = "write" /\ calls[c].st = "fail"
  /\ error' = calls[c].msg
  /\ Return(c, ReturnedFalse)
  /\ UNCHANGED <<slices, flags, reqSeq, budget, tasks, scanHist, chart, search>>

NextMutateOf(C) ==
  \/ \E c \in C : \E code \in Codes : addToWatchlist(c, code)
  \/ \E c \in C : \E code \in Codes : removeFromWatchlist(c, code)
  \/ \E c \in C : \E code \in Codes : addEtfToWatchlist(c, code)
  \/ \E c \in C : \E code \in Codes : removeEtfFromWatchlist(c, code)
  \/ \E c \in C : \E data \in Codes : updateSettings(c, data)
  \/ \E c \in C : BackendAccept(c)
  \/ \E c \in C : reloadAfterWrite(c)
  \/ \E c \in C : writeRejected(c)
  \/ \E c \in C : loadWatchlistFulfilled(c)
  \/ \E c \in C : loadWatchlistRejected(c)
  \/ \E c \in C : loadEtfWatchlistFulfilled(c)
  \/ \E c \in C : loadEtfWatchlistRejected(c)
  \/ \E c \in C : loadSettingsFulfilled(c)
  \/ \E c \in C : loadSettingsRejected(c)
  \/ \E c \in C : BackendRespond(c)
  \/ \E c \in C : BackendReject(c)

\* the mutating actions, with MutateRequests invocations
InitMutate == InitStore /\ budget = MutateRequests

NextMutate == NextMutateOf(StoreCallIds)

SpecMutate == InitMutate /\ [][NextMutate]_vars

\* the watchlist page: the refresh button calls loadWatchlist while
\* addToWatchlist and removeFromWatchlist run, in concurrent slots
NextWatchlistOf(C) ==
  \/ \E c \in C : loadWatchlist(c)
  \/ \E c \in C : \E code \in Codes : addToWatchlist(c, code)
  \/ \E c \in C : \E code \in Codes : removeFromWatchlist(c, code)
  \/ \E c \in C : BackendAccept(c)
  \/ \E c \in C : reloadAfterWrite(c)
  \/ \E c \in C : writeRejected(c)
  \/ \E c \in C : loadWatchlistFulfilled(c)
  \/ \E c \in C : loadWatchlistRejected(c)
  \/ \E c \in C : BackendRespond(c)
  \/ \E c \in C : BackendReject(c)

NextWatchlist == NextWatchlistOf(CallIds)

SpecWatchlist == InitMutate /\ [][NextWatchlist]_vars

\* ------------------------------------------------------------ testNotify
\* testNotify() up to the await of the POST, lines 222-223
testNotify(c) ==
  /\ Begin(c, "testNotify", "settings")
  /\ UNCHANGED <<slices, flags, error, budget, tasks, scanHist, results, chart, search>>

\* line 224: the response is returned
testNotifyFulfilled(c) ==
  /\ Fulfilled(c, "testNotify", "await")
  /\ Return(c, NotifyResponse(calls[c].val))
  /\ UNCHANGED <<slices, flags, error, reqSeq, budget, tasks, scanHist, chart, search>>

\* lines 225-227: { success: false, message: e.message } is returned
testNotifyRejectedSetsError(c) ==
  /\ Rejected(c, "testNotify", "await")
  /\ error' = calls[c].msg
  /\ Return(c, NotifyFailure(calls[c].msg))
  /\ UNCHANGED <<slices, flags, reqSeq, budget, tasks, scanHist, chart, search>>
testNotifyRejected(c) ==
  /\ Rejected(c, "testNotify", "await")
  /\ Return(c, NotifyFailure(calls[c].msg))
  /\ UNCHANGED <<slices, flags, error, reqSeq, budget, tasks, scanHist, chart, search>>

NextNotifyOf(C) ==
  \/ \E c \in C : testNotify(c)
  \/ \E c \in C : testNotifyFulfilled(c)
  \/ \E c \in C : testNotifyRejected(c)
  \/ \E c \in C : BackendRespond(c)
  \/ \E c \in C : BackendReject(c)

\* the scan and all the loads together
Next == NextScanOf(StoreCallIds) \/ NextLoadOf(StoreCallIds) \/ NextPlainOf(StoreCallIds)

Spec == Init /\ [][Next]_vars

\* ------------------------------------------------------------ KLineChart
\* KlineDataPoint: dates may repeat and come in any order; close is below,
\* equal to or above open; low, high and volume differ from both
KlinePoints ==
  {[date |-> d, open |-> oc[1], close |-> oc[2], low |-> 0, high |-> 3, volume |-> 4 + oc[2]] :
     d \in 1..2, oc \in {<<1, 1>>, <<1, 2>>, <<2, 1>>}}

\* SupportResistanceLine
LineTypes == {"strong", "medium", "weak"}
Lines == {[price |-> p, type |-> t, name |-> 10 + p] : p \in 1..2, t \in LineTypes}

SeqsUpTo(S, n) == UNION {[1..k -> S] : k \in 0..n}

\* every KlineResponse of at most nk points and at most nl lines of each kind
KlineInputs(nk, nl) ==
  {[code |-> 1, klines |-> k, support_lines |-> s, resistance_lines |-> r] :
     k \in SeqsUpTo(KlinePoints, nk),
     s \in SeqsUpTo(Lines, nl),
     r \in SeqsUpTo(Lines, nl)}

\* the response to kline request n for code: two points with one line of
\* each kind for odd n, one point and no line for even n
KlinesOf(code, n) ==
  LET k == n % 2 IN
  [code |-> code,
   klines |-> [i \in 1..(1 + k) |->
                 [date |-> 3 - i, open |-> 1, close |-> i, low |-> 0, high |-> 3,
                  volume |-> 4 + i]],
   support_lines |-> [i \in 1..k |-> [price |-> 1, type |-> "strong", name |-> 11]],
   resistance_lines |-> [i \in 1..k |-> [price |-> 2, type |-> "weak", name |-> 12]]]

UpColor == "#ef5350"
DownColor == "#26a69a"
SupportColor == "#00C853"
ResistanceColor == "#FF5722"

\* line 67: return {}
EmptyOption == [grid |-> << >>, xAxis |-> << >>, yAxis |-> << >>, series |-> << >>]

\* line 71
DatesReversed(klines) == [i \in DOMAIN klines |-> klines[Len(klines) + 1 - i].date]
Dates(klines) == [i \in DOMAIN klines |-> klines[i].date]

\* line 74
OhlcData(klines) ==
  [i \in DOMAIN klines |-> <<klines[i].open, klines[i].close, klines[i].low, klines[i].high>>]

\* lines 77-82
VolumeDataStrict(klines) ==
  [i \in DOMAIN klines |->
     [value |-> klines[i].volume,
      color |-> IF klines[i].close > klines[i].open THEN UpColor ELSE DownColor]]
VolumeData(klines) ==
  [i \in DOMAIN klines |->
     [value |-> klines[i].volume,
      color |-> IF klines[i].close >= klines[i].open THEN UpColor ELSE DownColor]]

\* lines 89-97 and 114-122: the entry pushed for one line
MarkerMediumSolid(line, color) ==
  LET isStrong == line.type \in {"strong", "medium"} IN
  [yAxis |-> line.price, name |-> line.name, color |-> color,
   type |-> IF isStrong THEN "solid" ELSE "dashed",
   width |-> IF isStrong THEN 3 ELSE 2]
Marker(line, color) ==
  LET isStrong == line.type = "strong" IN
  [yAxis |-> line.price, name |-> line.name, color |-> color,
   type |-> IF isStrong THEN "solid" ELSE "dashed",
   width |-> IF isStrong THEN 3 ELSE 2]

\* lines 85-135: markLineData after the two forEach loops, starting from the
\* list kept
MarkLineFrom(kept, data) ==
  kept \o [i \in DOMAIN data.support_lines |-> Marker(data.support_lines[i], SupportColor)]
       \o [i \in DOMAIN data.resistance_lines |->
             Marker(data.resistance_lines[i], ResistanceColor)]

\* line 85: const markLineData = [] in every evaluation
MarkLineDataDistinctPrices(data) ==
  LET all == MarkLineFrom(<< >>, data)
      first(i) == \A j \in 1..(i - 1) : all[j].yAxis # all[i].yAxis
      kept == SelectSeq([i \in DOMAIN all |-> <<all[i], first(i)>>], LAMBDA e : e[2])
  IN [i \in DOMAIN kept |-> kept[i][1]]
MarkLineData(data) == MarkLineFrom(<< >>, data)

\* lines 220-223; Undefined stands for the value undefined
Undefined == [symbol |-> "undefined", data |-> << >>]
MarkLineOf(markLineData) ==
  IF Len(markLineData) > 0 THEN [symbol |-> "none", data |-> markLineData] ELSE Undefined

\* lines 137-233: the option of a non-empty kline sequence: two grids, the
\* category axes, the value axes, the candlestick and the bar series (the bar
\* series has no markLine key)
FullOption(klines, markLineData) ==
  [grid |-> <<[top |-> "5%", height |-> "65%"], [top |-> "75%", height |-> "15%"]>>,
   xAxis |-> <<[type |-> "category", gridIndex |-> 0, data |-> Dates(klines)],
               [type |-> "category", gridIndex |-> 1, data |-> Dates(klines)]>>,
   yAxis |-> <<[type |-> "value", gridIndex |-> 0], [type |-> "value", gridIndex |-> 1]>>,
   series |-> <<[type |-> "candlestick", data |-> OhlcData(klines), xAxisIndex |-> 0,
                 markLine |-> MarkLineOf(markLineData)],
                [type |-> "bar", data |-> VolumeData(klines), xAxisIndex |-> 1,
                 markLine |-> Undefined]>>]

\* lines 65-234: the computed chartOption
ChartOptionNullOnly(data) ==
  IF data = NoKlineData
  THEN EmptyOption
  ELSE FullOption(data.klines, MarkLineData(data))
ChartOption(data) ==
  IF data = NoKlineData \/ Len(data.klines) = 0
  THEN EmptyOption
  ELSE FullOption(data.klines, MarkLineData(data))

\* the list markLineData of the evaluation recorded last, were it kept
KeptMarkers ==
  IF built = {} THEN << >>
  ELSE LET data(b) == IF b[2] = EmptyOption THEN << >> ELSE b[2].series[1].markLine.data
           longest == CHOOSE b \in built : \A o \in built : Len(data(o)) <= Len(data(b))
       IN data(longest)

\* chartOption is evaluated: it reads klineData and returns the option
buildChartKeepsMarkers ==
  /\ built' = built \cup
       {<<klineData, IF klineData = NoKlineData \/ Len(klineData.klines) = 0
                     THEN EmptyOption
                     ELSE FullOption(klineData.klines, MarkLineFrom(KeptMarkers, klineData)),
         reqSeq>>}
  /\ UNCHANGED <<slices, flags, error, calls, reqSeq, budget, tasks, scanHist, results,
                 klineData, chartLoading, chartError, propsCode, search>>
buildChart ==
  /\ built' = built \cup {<<klineData, ChartOption(klineData), reqSeq>>}
  /\ UNCHANGED <<slices, flags, error, calls, reqSeq, budget, tasks, scanHist, results,
                 klineData, chartLoading, chartError, propsCode, search>>

\* the builder on every input: a component that holds no response yet, or
\* any response within the bounds
InitChart ==
  /\ StoreConstructed
  /\ budget = 0
  /\ \/ klineData = NoKlineData /\ chartLoading = TRUE
     \/ klineData \in KlineInputs(MaxKlines, MaxLines) /\ chartLoading = FALSE
  /\ chartError = NoChartError
  /\ propsCode = klineData.code
  /\ built = {}
  /\ SearchMounted

NextChart == buildChart

SpecChart == InitChart /\ [][NextChart]_vars

\* e.message || '加载K线数据失败'
FallbackMessage == <<"loadData", 0>>

\* the codes the parent passes to the component
ChartCodes == 1..MaxChartCodes

\* the parent changes the code prop and the watcher calls loadData(), lines
\* 236-238, or the component is mounted with the code, lines 240-242;
\* loadData() runs up to its await, lines 50-56, and with an empty code it
\* returns at line 50
loadData(c, code) ==
  /\ code \in ChartCodes \cup {0}
  /\ code # propsCode
  /\ propsCode' = code
  /\ IF code = 0
     THEN UNCHANGED <<calls, reqSeq, chartLoading, chartError>>
     ELSE /\ calls[c].pc = "idle"
          /\ reqSeq < budget
          /\ reqSeq' = reqSeq + 1
          /\ calls' = [calls EXCEPT ![c] = [IdleCall EXCEPT !.act = "loadData", !.pc = "await",
                                                             !.inv = reqSeq + 1,
                                                             !.req = reqSeq + 1, !.arg = code,
                                                             !.api = "stock"]]
          /\ chartLoading' = TRUE
          /\ chartError' = NoChartError
  /\ UNCHANGED <<slices, flags, error, budget, tasks, scanHist, results, klineData, built, search>>

\* lines 56 and 60
loadDataFulfilled(c) ==
  /\ Fulfilled(c, "loadData", "await")
  /\ klineData' = KlinesOf(calls[c].arg, calls[c].val)
  /\ chartLoading' = FALSE
  /\ Settle(c)
  /\ UNCHANGED <<slices, flags, error, reqSeq, budget, tasks, scanHist, results,
                 chartError, propsCode, built, search>>

\* lines 58 and 60
loadDataRejected(c) ==
  /\ Rejected(c, "loadData", "await")
  /\ chartError' = IF calls[c].msg = NoError THEN FallbackMessage ELSE calls[c].msg
  /\ chartLoading' = FALSE
  /\ Settle(c)
  /\ UNCHANGED <<slices, flags, error, reqSeq, budget, tasks, scanHist, results,
                 klineData, propsCode, built, search>>

\* the component: loads of kline data, for the codes of the store's bound
\* or with the code emptied between two loads, and evaluations of chartOption
InitChartLoad == InitStore /\ budget = ChartRequests

NextChartLoad ==
  \/ \E c \in StoreCallIds : \E code \in Codes \cup {0} : loadData(c, code)
  \/ \E c \in StoreCallIds : loadDataFulfilled(c)
  \/ \E c \in StoreCallIds : loadDataRejected(c)
  \/ \E c \in StoreCallIds : BackendRespond(c)
  \/ \E c \in StoreCallIds : BackendReject(c)
  \/ buildChart

SpecChartLoad == InitChartLoad /\ [][NextChartLoad]_vars

\* the loads of the component in concurrent slots: the code changes while
\* earlier loads are in flight
NextChartRace ==
  \/ \E c \in CallIds : \E code \in ChartCodes \cup {0} : loadData(c, code)
  \/ \E c \in CallIds : loadDataFulfilled(c)
  \/ \E c \in CallIds : loadDataRejected(c)
  \/ \E c \in CallIds : BackendRespond(c)
  \/ \E c \in CallIds : BackendReject(c)

SpecChartRace == InitChartLoad /\ [][NextChartRace]_vars

\* ------------------------------------------------------------ search box
\* the non-blank keywords; 0 stands for a keyword that trims to ''
Keywords == 1..MaxKeywords

\* res.results of the response to search request n: one result for odd n,
\* none for even n
SearchResultsOf(n) == [i \in 1..(n % 2) |-> [code |-> 10 * n + i]]

\* clearTimeout(searchTimer): searchTimer holds the id of the timer set
\* last, so that timer is cancelled if it is still pending
AfterClearTimeout(timers) == IF timers > 0 THEN timers - 1 ELSE 0

\* the input event: v-model has stored the keyword and handleSearch runs,
\* part_003 lines 166-174 and 480-488 (the timer is set at line 174 / 488)
handleSearch(k) ==
  /\ k \in Keywords \cup {0}
  /\ searchKeyword' = k
  /\ IF k = 0
     THEN /\ searchResults' = << >>
          /\ searchTimers' = AfterClearTimeout(searchTimers)
     ELSE /\ searchResults' = searchResults
          /\ searchTimers' = AfterClearTimeout(searchTimers) + 1
  /\ UNCHANGED <<slices, flags, error, calls, reqSeq, budget, tasks, scanHist, results, chart>>

\* the 300 ms timer fires: the callback issues the search request for the
\* keyword of the moment, lines 175-176 and 489-490
searchTimerFires(c) ==
  /\ searchTimers > 0
  /\ calls[c].pc = "idle"
  /\ reqSeq < budget
  /\ reqSeq' = reqSeq + 1
  /\ searchTimers' = searchTimers - 1
  /\ calls' = [calls EXCEPT ![c] = [IdleCall EXCEPT !.act = "search", !.pc = "await",
                                                     !.inv = reqSeq + 1,
                                                     !.req = reqSeq + 1,
                                                     !.arg = searchKeyword, !.api = "stock"]]
  /\ UNCHANGED <<slices, flags, error, budget, tasks, scanHist, results, chart,
                 searchKeyword, searchResults>>

\* lines 177 and 491: the results of the response are stored
searchFulfilled(c) ==
  /\ Fulfilled(c, "search", "await")
  /\ searchResults' = SearchResultsOf(calls[c].val)
  /\ Settle(c)
  /\ UNCHANGED <<slices, flags, error, reqSeq, budget, tasks, scanHist, results, chart,
                 searchKeyword, searchTimers>>

\* lines 178-180 and 492-494: console.error only
searchRejected(c) ==
  /\ Rejected(c, "search", "await")
  /\ Settle(c)
  /\ UNCHANGED <<slices, flags, error, reqSeq, budget, tasks, scanHist, results, chart, search>>

InitSearch == InitStore /\ budget = SearchRequests

NextSearch ==
  \/ \E k \in Keywords \cup {0} : handleSearch(k)
  \/ \E c \in CallIds : searchTimerFires(c)
  \/ \E c \in CallIds : searchFulfilled(c)
  \/ \E c \in CallIds : searchRejected(c)
  \/ \E c \in CallIds : BackendRespond(c)
  \/ \E c \in CallIds : BackendReject(c)

SpecSearch == InitSearch /\ [][NextSearch]_vars

\* ------------------------------------------------------- derived counts
\* ['买入', '加仓'], line 232
BuyActions == {"buy", "add"}

\* ['卖出', '减仓'], line 236
SellActionsWithAdd == {"sell", "reduce", "add"}
SellActions == {"sell", "reduce"}

\* watchlist.filter(s => [...].includes(s.action)).length
CountOf(list, actions) == Cardinality({i \in DOMAIN list : list[i].action \in actions})

buySignalsCount == CountOf(watchlist, BuyActions)

sellSignalsCount == CountOf(watchlist, SellActions)

\* store.watchlist.length - store.buySignalsCount - store.sellSignalsCount
holdCount == Len(watchlist) - buySignalsCount - sellSignalsCount

\* action is a string: the five values the backend documents and one it does not
ActionValues == {StockActions[i] : i \in DOMAIN StockActions} \cup {"other"}

\* every watchlist of at most MaxItems entries
Watchlists ==
  UNION {{[i \in 1..k |-> [code |-> i, action |-> f[i]]] : f \in [1..k -> ActionValues]} :
           k \in 0..MaxItems}

\* the store holding any watchlist, followed by AllRequests loads of the
\* watchlist made one after another
InitCounts ==
  /\ loading = FALSE
  /\ error = NoError
  /\ watchlist \in Watchlists
  /\ watchlistLoading = FALSE
  /\ indices = << >>
  /\ indicesUpdateTime = << >>
  /\ todayBuySignals = << >>
  /\ todaySellSignals = << >>
  /\ scanTask = NoTask
  /\ scanPolling = FALSE
  /\ etfWatchlist = << >>
  /\ popularEtfs = << >>
  /\ settings = InitialSettings
  /\ currentAnalysis = NoAnalysis
  /\ calls = [c \in CallIds |-> IdleCall]
  /\ reqSeq = 0
  /\ tasks = [t \in ReqIds |-> NoBackendTask]
  /\ terminalIds = {}
  /\ lastResp = NoTask
  /\ lastStarted = 0
  /\ results = [n \in ReqIds |-> NoResult]
  /\ ChartMounted
  /\ SearchMounted
  /\ budget = AllRequests

NextCounts ==
  \/ loadWatchlist(1)
  \/ loadWatchlistFulfilled(1)
  \/ loadWatchlistRejected(1)
  \/ BackendRespond(1)
  \/ BackendReject(1)

SpecCounts == InitCounts /\ [][NextCounts]_vars

\* every action of the store, AllRequests invocations made one after another:
\* the next action is invoked when the one before it has returned (the poll
\* loop that startScan leaves behind runs in the slot of that invocation)
InitAll == InitStore /\ budget = AllRequests

OneByOne == {1}

NextAll ==
  \/ NextScanOf(OneByOne)
  \/ NextLoadOf(OneByOne)
  \/ NextPlainOf(OneByOne)
  \/ NextMutateOf(OneByOne)
  \/ NextNotifyOf(OneByOne)

SpecAll == InitAll /\ [][NextAll]_vars


\* ------------------------------------------------------------ properties
\* slot c runs a poll loop (a status request in flight or answered, or the
\* 1000 ms timer pending)
LoopActive(c) == calls[c].pc \in {"pollAwait", "pollDelay"}
ActiveLoops == {c \in CallIds : LoopActive(c)}

\* the step resumes the activity in slot c
Resumed(c) == calls'[c] # calls[c]

\* the step issues a status request from slot c
StatusRequestIssued(c) ==
  /\ calls'[c].pc = "pollAwait" /\ calls'[c].st = "none"
  /\ ~(calls[c].pc = "pollAwait" /\ calls[c].st = "none")

\* C1: at most one poll loop is active at any time, and it runs under
\* scanPolling = true; a startScan handled while scanPolling is true starts
\* no second loop
C1_SinglePollLoop ==
  /\ Cardinality(ActiveLoops) <= 1
  /\ ActiveLoops # {} => scanPolling

\* a loop polls an earlier task while a later startScan has stored its task
C1_Witness ==
  \E c \in CallIds : LoopActive(c) /\ scanPolling /\ scanTask.task_id > calls[c].arg

\* C2: a status request is issued only while the stored task is pending or
\* running, and for the stored task's id; no status request is in flight for
\* a task of which a terminal record has been stored; when the loop finds a
\* terminal record after its delay it exits and clears scanPolling
C2_PollsOnlyNonTerminal ==
  /\ [](\A c \in CallIds : calls[c].pc = "pollAwait" => calls[c].arg \notin terminalIds)
  /\ [][\A c \in CallIds :
          /\ StatusRequestIssued(c) =>
               /\ scanTask'.status \in NonTerminal
               /\ calls'[c].arg = scanTask'.task_id
          /\ (calls[c].pc = "pollDelay" /\ scanTask.status \in Terminal /\ Resumed(c)) =>
               /\ calls'[c].pc = "idle"
               /\ scanPolling' = FALSE]_vars

\* the loop has stored a terminal record and has exited
C2_Witness ==
  /\ scanTask.status \in Terminal
  /\ ~scanPolling
  /\ ActiveLoops = {}

\* C3: a rejected status request ends the loop at once: no request is
\* reissued, scanPolling becomes false, scanTask keeps the stored record,
\* which is pending or running, and error is not written
C3_FailedPollExitsSilently ==
  [][\A c \in CallIds :
       (Rejected(c, "startScan", "pollAwait") /\ Resumed(c)) =>
          /\ calls'[c].pc = "idle"
          /\ scanPolling' = FALSE
          /\ scanTask' = scanTask
          /\ scanTask.status \in NonTerminal
          /\ error' = error]_vars

\* the loop has ended on a rejected request: no loop runs, the flag is
\* clear, and the stored task is still not terminal
C3_Witness ==
  /\ scanTask.status \in NonTerminal
  /\ ~scanPolling
  /\ ActiveLoops = {}
  /\ error = NoError

\* the poller has come to rest on the final record of the stored task
PollerAtRest ==
  /\ ~scanPolling
  /\ ActiveLoops = {}
  /\ scanTask.status \in Terminal
  /\ scanTask = lastResp
  /\ scanTask = TaskRecord(scanTask.task_id, tasks[scanTask.task_id])

\* C4: after one successful startScan, with no rejected request and a
\* backend that brings the task to completed or failed, the poller
\* terminates: from some point on scanPolling is false and scanTask is the
\* last response received, the task's final record
C4_PollerTerminates ==
  [](scanTask # NoTask => <>[]PollerAtRest)

\* the poller has followed the task through running to completed
C4_Witness ==
  /\ PollerAtRest
  /\ reqSeq = 1
  /\ scanTask.status = "completed"
  /\ \A c \in CallIds : calls[c].pc = "idle"

\* C5: the handler of a fulfilled startScan request stores the returned
\* descriptor whatever record was stored before
C5_StartScanReplacesTask ==
  [][\A c \in CallIds :
       (Fulfilled(c, "startScan", "await") /\ Resumed(c)) =>
          scanTask' = calls[c].task]_vars

\* the descriptor of a later scan has replaced a record of an earlier task
\* while that task was being polled or after it had ended
C5_Witness ==
  /\ scanTask.status = "pending"
  /\ scanTask.task_id > 1
  /\ \E t \in ReqIds : t < scanTask.task_id /\ tasks[t].status # "none"
  /\ lastResp = scanTask

\* C6: with a backend that moves every task forward only and gives every
\* scan a fresh task id, once the store has held a terminal record of a
\* task it never holds a pending or running record of that task again
C6_StoredStatusForwardOnly ==
  scanTask.task_id \in terminalIds => scanTask.status \in Terminal

\* the store holds the terminal record of a task that the loop polled
C6_Witness ==
  /\ scanTask.task_id \in terminalIds
  /\ scanTask.status = "completed"
  /\ scanTask.processed = TaskTotal

\* C7: when the request of loadWatchlist is rejected, watchlist keeps its
\* value, error becomes the rejection's message and watchlistLoading is false
C7_FailedWatchlistLoad ==
  [][\A c \in CallIds :
       (Rejected(c, "loadWatchlist", "await") /\ Resumed(c)) =>
          /\ watchlist' = watchlist
          /\ error' = calls[c].msg
          /\ watchlistLoading' = FALSE
          /\ calls'[c].pc = "idle"]_vars

\* a loadWatchlist has failed after an earlier one had loaded entries
C7_Witness ==
  /\ watchlist # << >>
  /\ error # NoError
  /\ error[1] = "loadWatchlist"
  /\ \E n \in ReqIds : n < error[2] /\ watchlist = WatchlistItems(n)
  /\ ~watchlistLoading

\* some invocation of store action a has not settled
Running(a) == \E c \in CallIds : calls[c].pc # "idle" /\ Requester(c) = a

\* C8: whenever no loadWatchlist is in flight watchlistLoading is false, and
\* whenever no loadAnalysis is in flight loading is false
C8_FlagsNeverStuck ==
  /\ ~Running("loadWatchlist") => ~watchlistLoading
  /\ ~Running("loadAnalysis") => ~loading

\* both actions have run and failed, and nothing is in flight
C8_Witness ==
  /\ \A c \in CallIds : calls[c].pc = "idle"
  /\ reqSeq >= 2
  /\ error # NoError
  /\ currentAnalysis = NoAnalysis
  /\ ~loading /\ ~watchlistLoading

\* the step leaves every slice outside S and the error slot unchanged
OnlySlicesChanged(S) ==
  /\ "watchlist" \in S \/ watchlist' = watchlist
  /\ "indices" \in S \/ indices' = indices
  /\ "indicesUpdateTime" \in S \/ indicesUpdateTime' = indicesUpdateTime
  /\ "todayBuySignals" \in S \/ todayBuySignals' = todayBuySignals
  /\ "todaySellSignals" \in S \/ todaySellSignals' = todaySellSignals
  /\ "scanTask" \in S \/ scanTask' = scanTask
  /\ "etfWatchlist" \in S \/ etfWatchlist' = etfWatchlist
  /\ "popularEtfs" \in S \/ popularEtfs' = popularEtfs
  /\ "settings" \in S \/ settings' = settings
  /\ "currentAnalysis" \in S \/ currentAnalysis' = currentAnalysis
  /\ error' = error

\* C9: the handler of a fulfilled read request, and of a fulfilled status
\* request of the poll loop, sets the slices the action owns to the fields
\* of the response and changes no other slice
C9_SuccessReplacesWholesale ==
  [][\A c \in CallIds :
       (calls[c].st = "ok" /\ Resumed(c)) =>
          LET n == calls[c].val IN
          /\ calls[c].act = "loadWatchlist" =>
               watchlist' = WatchlistItems(n) /\ OnlySlicesChanged({"watchlist"})
          /\ calls[c].act = "loadIndices" =>
               /\ indices' = IndicesOf(n)
               /\ indicesUpdateTime' = UpdateTimeOf(n)
               /\ OnlySlicesChanged({"indices", "indicesUpdateTime"})
          /\ calls[c].act = "loadTodaySignals" =>
               /\ todayBuySignals' = BuySignalsOf(n)
               /\ todaySellSignals' = SellSignalsOf(n)
               /\ OnlySlicesChanged({"todayBuySignals", "todaySellSignals"})
          /\ calls[c].act = "loadEtfWatchlist" =>
               etfWatchlist' = EtfItemsOf(n) /\ OnlySlicesChanged({"etfWatchlist"})
          /\ calls[c].act = "loadPopularEtfs" =>
               popularEtfs' = PopularItemsOf(n) /\ OnlySlicesChanged({"popularEtfs"})
          /\ calls[c].act = "loadSettings" =>
               settings' = SettingsOf(n) /\ OnlySlicesChanged({"settings"})
          /\ calls[c].act = "loadAnalysis" =>
               /\ currentAnalysis' = AnalysisOf(calls[c].api, n)
               /\ OnlySlicesChanged({"currentAnalysis"})
          /\ (calls[c].act = "startScan" /\ calls[c].pc = "pollAwait") =>
               scanTask' = calls[c].task /\ OnlySlicesChanged({"scanTask"})]_vars

\* a second watchlist response has replaced the entries of the first
C9_Witness ==
  /\ reqSeq = 2
  /\ watchlist = WatchlistItems(2)
  /\ \A c \in CallIds : calls[c].pc = "idle"
  /\ error = NoError

\* the loads without a loading flag
PlainLoads == {"loadIndices", "loadTodaySignals", "loadEtfWatchlist", "loadPopularEtfs",
               "loadSettings"}

\* C10: when the request of loadIndices, loadTodaySignals, loadEtfWatchlist,
\* loadPopularEtfs or loadSettings is rejected, every slice keeps its value
\* and error becomes the rejection's message
C10_FailedPlainLoad ==
  [][\A c \in CallIds :
       (calls[c].act \in PlainLoads /\ calls[c].st = "fail" /\ Resumed(c)) =>
          /\ error' = calls[c].msg
          /\ slices' = slices]_vars

\* a plain load has failed after an earlier one had populated its slice
C10_Witness ==
  /\ error # NoError
  /\ error[1] = "loadSettings"
  /\ settings # InitialSettings
  /\ \A c \in CallIds : calls[c].pc = "idle"


\* C11 as stated: when the request of loadAnalysis is rejected, error is set,
\* loading is cleared and currentAnalysis keeps the value it had before
C11_AsStated ==
  [][\A c \in CallIds :
       (Rejected(c, "loadAnalysis", "await") /\ Resumed(c)) =>
          /\ error' = calls[c].msg
          /\ loading' = FALSE
          /\ currentAnalysis' = currentAnalysis]_vars

\* C11 amended: when the request of loadAnalysis is rejected, error is set to
\* the rejection's message, loading is cleared and currentAnalysis is set to
\* null, whatever analysis it held before
C11_FailedAnalysisLoadClears ==
  [][\A c \in CallIds :
       (Rejected(c, "loadAnalysis", "await") /\ Resumed(c)) =>
          /\ error' = calls[c].msg
          /\ loading' = FALSE
          /\ currentAnalysis' = NoAnalysis
          /\ calls'[c].pc = "idle"]_vars

\* a loadAnalysis has failed after the first request had been issued, and
\* has left no analysis
C11_Witness ==
  /\ error # NoError
  /\ error[1] = "loadAnalysis"
  /\ error[2] >= 2
  /\ currentAnalysis = NoAnalysis
  /\ ~loading
  /\ \A c \in CallIds : calls[c].pc = "idle"

\* a loadAnalysis request has been issued and has not settled
AnalysisInFlight == \E c \in CallIds : calls[c].act = "loadAnalysis" /\ calls[c].pc = "await"

\* C12 as stated: while a loadAnalysis request has not settled,
\* currentAnalysis holds no analysis of an earlier load
C12_AsStated == AnalysisInFlight => currentAnalysis = NoAnalysis

\* C12 amended: starting loadAnalysis sets loading and leaves
\* currentAnalysis as it is, so an earlier analysis stays in the slot while the
\* request is in flight; currentAnalysis changes only when a loadAnalysis
\* request settles
C12_AnalysisKeptUntilSettled ==
  [][/\ \A c \in CallIds :
          (calls[c].pc = "idle" /\ calls'[c].act = "loadAnalysis") =>
             /\ loading' = TRUE
             /\ currentAnalysis' = currentAnalysis
     /\ currentAnalysis' # currentAnalysis =>
          \E c \in CallIds : /\ calls[c].act = "loadAnalysis"
                             /\ calls[c].st \in {"ok", "fail"}
                             /\ Resumed(c)]_vars

\* a load is in flight while the slot still holds the analysis of an earlier
\* load
C12_Witness ==
  /\ AnalysisInFlight
  /\ currentAnalysis # NoAnalysis
  /\ loading

\* slot c resumes with the fulfilled write request of a mutating action
WriteFulfilled(c) ==
  /\ calls[c].act \in MutatingActions
  /\ calls[c].pc = "write" /\ calls[c].st = "ok"
  /\ Resumed(c)

\* slot c resumes with the rejected write request of a mutating action
WriteRejected(c) ==
  /\ calls[c].act \in MutatingActions
  /\ calls[c].pc = "write" /\ calls[c].st = "fail"
  /\ Resumed(c)

\* slot c resumes with the settled reload request of a mutating action
ReloadSettled(c) ==
  /\ calls[c].pc = "reload" /\ calls[c].st \in {"ok", "fail"}
  /\ Resumed(c)

\* the step stores the response of the reload of slot c in the slice of the
\* reload and changes nothing else
ReloadApplied(c) ==
  LET n == calls[c].val IN
  /\ ReloadOf(calls[c].act) = "loadWatchlist" =>
       watchlist' = WatchlistItems(n) /\ OnlySlicesChanged({"watchlist"})
  /\ ReloadOf(calls[c].act) = "loadEtfWatchlist" =>
       etfWatchlist' = EtfItemsOf(n) /\ OnlySlicesChanged({"etfWatchlist"})
  /\ ReloadOf(calls[c].act) = "loadSettings" =>
       settings' = SettingsOf(n) /\ OnlySlicesChanged({"settings"})

\* C13: when the write request of a mutating action is fulfilled the action
\* issues one request of its reload, changing no slice and not yet
\* returning; when that request settles the action returns without issuing
\* another; and a slice changes only in the step that stores the response of
\* a fulfilled reload request
C13_OneReloadAfterWrite ==
  [][/\ \A c \in StoreCallIds :
          /\ WriteFulfilled(c) =>
               /\ reqSeq' = reqSeq + 1
               /\ calls'[c].pc = "reload" /\ calls'[c].req = reqSeq + 1
               /\ calls'[c].st = "none"
               /\ slices' = slices
               /\ results'[calls[c].inv] = NoResult
          /\ ReloadSettled(c) =>
               /\ reqSeq' = reqSeq
               /\ calls'[c].pc = "idle"
               /\ results'[calls[c].inv] # NoResult
     /\ slices' # slices =>
          \E c \in StoreCallIds : /\ calls[c].pc = "reload" /\ calls[c].st = "ok"
                                  /\ Resumed(c)
                                  /\ ReloadApplied(c)]_vars

\* addToWatchlist or removeFromWatchlist was invoked first, its write
\* succeeded, its reload was request 2, and the watchlist holds the response
\* of that reload
C13_Witness ==
  /\ results[1] = ReturnedTrue
  /\ watchlist = WatchlistItems(2)
  /\ etfWatchlist = << >>
  /\ \A c \in StoreCallIds : calls[c].pc = "idle"

\* C14 as stated: the write request of a mutating action is followed by a
\* request of the reload whatever its outcome, so also when it is rejected
C14_AsStated ==
  [][\A c \in StoreCallIds :
       (WriteFulfilled(c) \/ WriteRejected(c)) =>
          /\ reqSeq' = reqSeq + 1
          /\ calls'[c].pc = "reload"]_vars

\* C14 amended: the reload is conditional on the write. A fulfilled write
\* request is followed by one request of the reload whatever the success
\* field of its body says; after a rejected write request the action writes
\* the message to error and returns without issuing any request; and a
\* reload request is issued by no other step
C14_ReloadOnlyAfterFulfilledWrite ==
  [][\A c \in StoreCallIds :
       /\ WriteFulfilled(c) =>
            /\ reqSeq' = reqSeq + 1
            /\ calls'[c].pc = "reload"
       /\ WriteRejected(c) =>
            /\ reqSeq' = reqSeq
            /\ calls'[c].pc = "idle"
            /\ error' = calls[c].msg
            /\ slices' = slices
       /\ (calls'[c].pc = "reload" /\ calls[c].pc # "reload") => WriteFulfilled(c)]_vars

\* the write of the first invocation was rejected and the action has
\* returned: request 1 is the only request issued, and no slice was reloaded
C14_Witness ==
  /\ results[1] = ReturnedFalse
  /\ reqSeq = 1
  /\ error # NoError
  /\ watchlist = << >> /\ etfWatchlist = << >> /\ settings = InitialSettings
  /\ \A c \in StoreCallIds : calls[c].pc = "idle"

\* C15: a mutating action returns false, having written the failure's
\* message to error, in the step that handles its rejected write request;
\* it returns true in the step in which its reload settles, whether the
\* reload succeeded or failed; it returns in no other step and never throws
C15_BooleanOutcome ==
  [][/\ \A c \in StoreCallIds :
          /\ WriteRejected(c) =>
               /\ results'[calls[c].inv] = ReturnedFalse
               /\ error' = calls[c].msg
               /\ calls'[c].pc = "idle"
          /\ ReloadSettled(c) =>
               /\ results'[calls[c].inv] = ReturnedTrue
               /\ calls'[c].pc = "idle"
     /\ \A n \in ReqIds :
          results'[n] # results[n] =>
             /\ results[n] = NoResult
             /\ \E c \in StoreCallIds :
                  /\ calls[c].inv = n
                  /\ \/ WriteRejected(c) /\ results'[n] = ReturnedFalse
                     \/ ReloadSettled(c) /\ results'[n] = ReturnedTrue]_vars

\* the first invocation returned true although its reload, request 2, failed
\* and left its message in error
C15_Witness ==
  /\ results[1] = ReturnedTrue
  /\ reqSeq = 2
  /\ error # NoError
  /\ \A c \in StoreCallIds : calls[c].pc = "idle"

\* slot c resumes with a rejected request: of a load, of a write, of
\* startScan, of the poll loop or of testNotify
FailureHandled(c) == calls[c].st = "fail" /\ Resumed(c)

\* every slice but currentAnalysis
slicesButAnalysis == <<watchlist, indices, indicesUpdateTime, todayBuySignals,
                       todaySellSignals, scanTask, etfWatchlist, popularEtfs, settings>>

\* the step settles slot c normally: the slot is idle again, nothing is
\* thrown to the caller, error is left alone or set to the failure's message,
\* and only the return value of this invocation is recorded
SettlesNormally(c) ==
  /\ calls'[c].pc = "idle"
  /\ \A n \in ReqIds : results'[n] # Thrown
  /\ \A n \in ReqIds : n # calls[c].inv => results'[n] = results[n]
  /\ error' \in {error, calls[c].msg}

\* C16 as stated: every step that handles a rejected request settles the
\* action normally and leaves every slice unchanged, so that the failure
\* shows in error or in the return value only
C16_AsStated ==
  [][\A c \in OneByOne :
       FailureHandled(c) => SettlesNormally(c) /\ slices' = slices]_vars

\* C16 amended: every step that handles a rejected request settles the
\* action normally; it leaves every slice unchanged except that a failed
\* loadAnalysis also sets currentAnalysis to null
C16_FailuresContained ==
  [][\A c \in OneByOne :
       FailureHandled(c) =>
          /\ SettlesNormally(c)
          /\ slicesButAnalysis' = slicesButAnalysis
          /\ IF Requester(c) = "loadAnalysis"
             THEN currentAnalysis' = NoAnalysis
             ELSE currentAnalysis' = currentAnalysis]_vars

\* testNotify has failed and returned: the failure shows in its return value
\* and nowhere in the store
C16_Witness ==
  /\ results[1] = NotifyFailure(MessageOf("testNotify", 1))
  /\ error = NoError
  /\ watchlist = << >> /\ settings = InitialSettings /\ scanTask = NoTask
  /\ \A c \in OneByOne : calls[c].pc = "idle"

\* slot c resumes with the fulfilled request of read action a
ReadFulfilled(c, a) ==
  /\ calls[c].act = a /\ calls[c].pc = "await" /\ calls[c].st = "ok"
  /\ Resumed(c)

\* C17: the handler of a fulfilled loadWatchlist or loadAnalysis request
\* stores the response of its own request whatever the order in which the
\* requests were issued, no other step changes the slice while both requests
\* succeed, and so the slice holds the response that was handled last
C17_LastArrivalWins ==
  [][/\ \A c \in CallIds :
          /\ ReadFulfilled(c, "loadWatchlist") =>
               watchlist' = WatchlistItems(calls[c].req)
          /\ ReadFulfilled(c, "loadAnalysis") =>
               currentAnalysis' = AnalysisOf(calls[c].api, calls[c].req)
     /\ watchlist' # watchlist =>
          \E c \in CallIds : ReadFulfilled(c, "loadWatchlist")
     /\ (currentAnalysis' # currentAnalysis /\ error' = error) =>
          \E c \in CallIds : ReadFulfilled(c, "loadAnalysis")]_vars

\* two overlapping loadAnalysis invocations have both succeeded, the response
\* to request 1 was handled after the response to request 2, and the slot
\* holds the analysis of request 1
C17_Witness ==
  /\ reqSeq = 2
  /\ error = NoError
  /\ watchlist = << >>
  /\ currentAnalysis # NoAnalysis
  /\ currentAnalysis[3] = 1
  /\ \A c \in CallIds : calls[c].pc = "idle"

\* slot c resumes with the rejected request of plain load a
ReadRejected(c, a) ==
  /\ calls[c].act = a /\ calls[c].pc = "await" /\ calls[c].st = "fail"
  /\ Resumed(c)

\* C18: every handler of a rejected load writes the message of its own
\* failure to the one error slot whatever the slot held, and error changes in
\* no other step: after several failures error is the message handled last
C18_LastErrorWins ==
  [][/\ \A c \in CallIds : \A a \in PlainLoads :
          ReadRejected(c, a) => error' = MessageOf(a, calls[c].req)
     /\ error' # error =>
          \E c \in CallIds : \E a \in PlainLoads : ReadRejected(c, a)]_vars

\* two overlapping loads have both failed, the failure of request 1 was
\* handled after the failure of request 2, and error holds the message of
\* request 1: the message of request 2 is lost
C18_Witness ==
  /\ reqSeq = 2
  /\ error # NoError
  /\ error[2] = 1
  /\ indices = << >> /\ todayBuySignals = << >> /\ etfWatchlist = << >>
  /\ popularEtfs = << >> /\ settings = InitialSettings
  /\ \A c \in CallIds : calls[c].pc = "idle"

\* C19: no entry of the watchlist is counted both by buySignalsCount and by
\* sellSignalsCount, so the two counts together never exceed the length of
\* the watchlist and the hold count the view derives is never negative
C19_CountsPartition ==
  /\ \A i \in DOMAIN watchlist :
       ~(watchlist[i].action \in BuyActions /\ watchlist[i].action \in SellActions)
  /\ buySignalsCount + sellSignalsCount <= Len(watchlist)
  /\ holdCount >= 0

\* a watchlist of one buy entry and one sell entry: the counts add up to its
\* length and the hold count is zero
C19_Witness ==
  /\ Len(watchlist) = 2
  /\ buySignalsCount = 1
  /\ sellSignalsCount = 1
  /\ holdCount = 0

\* the step issues a request from slot c
RequestIssued(c) ==
  /\ calls'[c].pc \in {"await", "write", "reload", "pollAwait"}
  /\ calls'[c].st = "none"
  /\ calls[c].pc # calls'[c].pc \/ calls[c].st # "none"

\* C20: a step issues at most one request; the step that handles a rejected
\* request issues none; a read action and testNotify return when their one
\* request settles, a mutating action when its reload settles; the only
\* requests an action issues after its first are the reload that follows a
\* fulfilled write and the status requests of the poll loop, and a status
\* request is issued only while the stored task is pending or running
C20_NoRetryOutsidePoller ==
  [][\A c \in OneByOne :
       /\ reqSeq' \in {reqSeq, reqSeq + 1}
       /\ FailureHandled(c) => ~RequestIssued(c) /\ reqSeq' = reqSeq
       /\ ( /\ calls[c].act \in ReadActions \cup {"testNotify"}
            /\ calls[c].pc = "await" /\ calls[c].st \in {"ok", "fail"}
            /\ Resumed(c) ) => calls'[c].pc = "idle" /\ reqSeq' = reqSeq
       /\ ReloadSettled(c) => calls'[c].pc = "idle" /\ reqSeq' = reqSeq
       /\ (RequestIssued(c) /\ calls[c].pc # "idle") =>
            \/ WriteFulfilled(c) /\ calls'[c].pc = "reload"
            \/ /\ calls[c].act = "startScan" /\ calls[c].st # "fail"
               /\ calls'[c].pc = "pollAwait"
               /\ ShouldPoll(scanTask')]_vars

\* loadIndices has failed and returned: its request, number 1, is the only
\* request that was issued
C20_Witness ==
  /\ error = MessageOf("loadIndices", 1)
  /\ reqSeq = 1
  /\ indices = << >>
  /\ \A c \in OneByOne : calls[c].pc = "idle"

\* C21: every recorded evaluation of chartOption that read no response, or a
\* response whose kline sequence is empty, returned the empty option: no
\* grid, no axis, no series, whatever its line sets hold
C21_EmptyKlinesEmptyOption ==
  \A b \in built :
    (b[1] = NoKlineData \/ Len(b[1].klines) = 0) =>
       /\ b[2] = EmptyOption
       /\ b[2].grid = << >> /\ b[2].series = << >>
       /\ b[2].xAxis = << >> /\ b[2].yAxis = << >>

\* the builder has run on a response with no kline and with a support and a
\* resistance line
C21_Witness ==
  \E b \in built :
    /\ b[1] # NoKlineData
    /\ Len(b[1].klines) = 0
    /\ Len(b[1].support_lines) > 0 /\ Len(b[1].resistance_lines) > 0
    /\ b[2] = EmptyOption

\* the volume series of a built option
VolumeSeries(option) == option.series[2].data

\* the candlestick series of a built option
CandleSeries(option) == option.series[1].data

\* C22: in every recorded evaluation on a non-empty kline sequence the
\* volume series has one bar per point; the bar at index i carries the volume
\* of point i and has the up colour when close >= open and the down colour
\* otherwise
C22_VolumeBarColour ==
  \A b \in built :
    (b[1] # NoKlineData /\ Len(b[1].klines) > 0) =>
       LET klines == b[1].klines
           bars == VolumeSeries(b[2])
       IN /\ DOMAIN bars = DOMAIN klines
          /\ \A i \in DOMAIN klines :
               /\ bars[i].value = klines[i].volume
               /\ klines[i].close >= klines[i].open => bars[i].color = UpColor
               /\ klines[i].close < klines[i].open => bars[i].color = DownColor

\* the builder has run on two points, the first with close equal to open and
\* the second with close below open: an up bar followed by a down bar
C22_Witness ==
  \E b \in built :
    /\ b[1] # NoKlineData
    /\ Len(b[1].klines) = 2
    /\ b[1].klines[1].close = b[1].klines[1].open
    /\ b[1].klines[2].close < b[1].klines[2].open
    /\ VolumeSeries(b[2])[1].color = UpColor
    /\ VolumeSeries(b[2])[2].color = DownColor

\* the markers of a built option: the data of the markLine of its
\* candlestick series
Markers(option) == option.series[1].markLine.data

\* the stroke the claim requires for a line of type t
StrokeOf(t) == IF t = "strong" THEN <<"solid", 3>> ELSE <<"dashed", 2>>

\* C23: in every recorded evaluation on a non-empty kline sequence the marker
\* of every support line and of every resistance line has the line's price
\* as its yAxis, and its stroke is solid of width 3 for type strong and
\* dashed of width 2 for types medium and weak
C23_MarkerStroke ==
  \A b \in built :
    (b[1] # NoKlineData /\ Len(b[1].klines) > 0) =>
       LET sup == b[1].support_lines
           res == b[1].resistance_lines
           m == Markers(b[2])
       IN /\ \A i \in DOMAIN sup :
               /\ i \in DOMAIN m
               /\ m[i].yAxis = sup[i].price
               /\ <<m[i].type, m[i].width>> = StrokeOf(sup[i].type)
          /\ \A j \in DOMAIN res :
               /\ Len(sup) + j \in DOMAIN m
               /\ m[Len(sup) + j].yAxis = res[j].price
               /\ <<m[Len(sup) + j].type, m[Len(sup) + j].width>> = StrokeOf(res[j].type)

\* the builder has run on a strong support line and a medium resistance
\* line: a solid marker of width 3 and a dashed marker of width 2
C23_Witness ==
  \E b \in built :
    /\ b[1] # NoKlineData /\ Len(b[1].klines) > 0
    /\ Len(b[1].support_lines) = 1 /\ b[1].support_lines[1].type = "strong"
    /\ Len(b[1].resistance_lines) = 1 /\ b[1].resistance_lines[1].type = "medium"
    /\ Markers(b[2])[1].type = "solid" /\ Markers(b[2])[1].width = 3
    /\ Markers(b[2])[2].type = "dashed" /\ Markers(b[2])[2].width = 2

C26_AxesFollowInput ==
  \A b \in built :
    (b[1] # NoKlineData /\ Len(b[1].klines) > 0) =>
       LET klines == b[1].klines
           option == b[2]
       IN /\ Len(option.xAxis) = 2
          /\ \A a \in 1..2 :
               /\ option.xAxis[a].gridIndex = a - 1
               /\ Len(option.xAxis[a].data) = Len(klines)
               /\ \A i \in DOMAIN klines : option.xAxis[a].data[i] = klines[i].date
          /\ Len(CandleSeries(option)) = Len(klines)
          /\ Len(VolumeSeries(option)) = Len(klines)
          /\ \A i \in DOMAIN klines :
               CandleSeries(option)[i] =
                 <<klines[i].open, klines[i].close, klines[i].low, klines[i].high>>

\* the builder has run on two points whose dates descend: both axes keep
\* the dates as they came
C26_Witness ==
  \E b \in built :
    /\ b[1] # NoKlineData
    /\ Len(b[1].klines) = 2
    /\ b[1].klines[1].date > b[1].klines[2].date
    /\ b[2].xAxis[1].data = <<b[1].klines[1].date, b[1].klines[2].date>>
    /\ b[2].xAxis[2].data = b[2].xAxis[1].data
    /\ Len(CandleSeries(b[2])) = 2

\* the status requests in flight
StatusRequestsInFlight == {c \in CallIds : InFlight(c, "startScan", "pollAwait")}

\* C27: inside the poll loop the handler of an answered status request
\* stores the response and then suspends on the 1000 ms timer; the loop
\* issues its next status request only when that timer has expired, and at
\* most one status request is in flight
C27_PollStoresThenDelays ==
  /\ [](Cardinality(StatusRequestsInFlight) <= 1)
  /\ [][\A c \in CallIds :
          /\ (Fulfilled(c, "startScan", "pollAwait") /\ Resumed(c)) =>
               /\ scanTask' = calls[c].task
               /\ calls'[c].pc = "pollDelay"
          /\ (LoopActive(c) /\ StatusRequestIssued(c)) => calls[c].pc = "pollDelay"]_vars

\* the loop has stored a running record, has waited, and polls that task again
C27_Witness ==
  \E c \in CallIds :
     /\ InFlight(c, "startScan", "pollAwait")
     /\ scanTask.status = "running"
     /\ calls[c].arg = scanTask.task_id
     /\ lastResp = scanTask

\* C28: when the request of startScan is rejected, error becomes the
\* rejection's message, scanTask and scanPolling keep their values, and the
\* call ends without issuing a status request
C28_FailedStartScan ==
  [][\A c \in CallIds :
       (Rejected(c, "startScan", "await") /\ Resumed(c)) =>
          /\ error' = calls[c].msg
          /\ scanTask' = scanTask
          /\ scanPolling' = scanPolling
          /\ calls'[c].pc = "idle"
          /\ ~StatusRequestIssued(c)]_vars

\* a startScan has failed while the loop of an earlier scan goes on polling
C28_Witness ==
  /\ error # NoError
  /\ error[1] = "startScan"
  /\ scanPolling
  /\ scanTask.task_id # 0
  /\ error[2] > scanTask.task_id
  /\ \E c \in CallIds : LoopActive(c) /\ calls[c].arg = scanTask.task_id

\* the requests of load action a that are in flight
LoadsInFlight(a) == {c \in CallIds : InFlight(c, a, "await")}

\* C29: watchlistLoading is true in every state where a loadWatchlist
\* request is in flight, and loading is true in every state where a
\* loadAnalysis request is in flight, also when invocations of the same
\* action overlap and one of them has settled
C29_FlagMarksLoading ==
  /\ LoadsInFlight("loadWatchlist") # {} => watchlistLoading
  /\ LoadsInFlight("loadAnalysis") # {} => loading

\* the step stores the descriptor that a fulfilled startScan has returned
StartScanStores ==
  \E c \in CallIds : Fulfilled(c, "startScan", "await") /\ Resumed(c)

\* C30: once a fulfilled startScan has stored the descriptor of a task,
\* scanTask keeps that task's id until another startScan is fulfilled, also
\* when a status request for the task stored before was in flight
C30_TaskIdKept ==
  [][(scanTask # NoTask /\ scanTask'.task_id # scanTask.task_id) => StartScanStores]_vars

\* the store holds the final record of the task started last, and no loop runs
LatestTaskTracked ==
  /\ scanTask.task_id = lastStarted
  /\ scanTask.status \in Terminal
  /\ ~scanPolling

\* C31: with no rejected request, a backend that ends every task and
\* finitely many scans, the store eventually holds, for good, a terminal
\* record of the task started last with scanPolling false, also when that
\* task was stored while the loop of an earlier task was active
C31_LatestTaskTracked ==
  <>[](lastStarted # 0 => LatestTaskTracked)

\* C32: a startScan handled while scanPolling is true stores its descriptor
\* and starts no loop; when the descriptor was stored during the delay that
\* follows the terminal record of the task the loop polled, the loop finds
\* it when the timer expires and polls the new task by its own id, with
\* scanPolling still true
C32_LateScanPickedUp ==
  [][\A c \in CallIds :
       /\ (Fulfilled(c, "startScan", "await") /\ scanPolling /\ Resumed(c)) =>
            /\ scanTask' = calls[c].task
            /\ calls'[c].pc = "idle"
            /\ scanPolling'
       /\ (/\ calls[c].pc = "pollDelay"
           /\ calls[c].arg \in terminalIds
           /\ scanTask.status \in NonTerminal
           /\ Resumed(c)) =>
            /\ StatusRequestIssued(c)
            /\ calls'[c].arg = scanTask.task_id
            /\ calls'[c].arg # calls[c].arg
            /\ scanPolling']_vars

\* the loop that a scan started has stored the terminal record of its task
\* and now polls the task of a later scan
C32_Witness ==
  \E c \in CallIds :
     /\ InFlight(c, "startScan", "pollAwait")
     /\ calls[c].req \in terminalIds
     /\ calls[c].arg > calls[c].req
     /\ calls[c].arg = scanTask.task_id
     /\ calls[c].arg = lastStarted
     /\ Cardinality(ActiveLoops) = 1

\* the step records true as the return value of invocation n
ReturnsTrue(n) == results[n] = NoResult /\ results'[n] = ReturnedTrue

\* slot c holds mutating invocation n and resumes with its settled reload,
\* a request issued after the write
ReloadOfInvocationSettles(c, n) ==
  /\ calls[c].act \in MutatingActions
  /\ calls[c].inv = n
  /\ calls[c].req > n
  /\ ReloadSettled(c)

\* C33 as stated: in the step in which a mutating action returns true, the
\* slice it resynchronizes is replaced by the response of a reload requested
\* after the write
C33_AsStated ==
  [][\A n \in ReqIds :
       ReturnsTrue(n) =>
          \E c \in StoreCallIds : /\ ReloadOfInvocationSettles(c, n)
                                  /\ calls[c].st = "ok"
                                  /\ ReloadApplied(c)]_vars

\* C33 amended: a mutating action returns true in the step that settles the
\* reload it requested after its write; a fulfilled reload replaces the
\* slice by its response, a rejected reload leaves every slice as it was and
\* puts its message in error
C33_TrueAfterReloadSettled ==
  [][\A n \in ReqIds :
       ReturnsTrue(n) =>
          \E c \in StoreCallIds :
             /\ ReloadOfInvocationSettles(c, n)
             /\ \/ calls[c].st = "ok" /\ ReloadApplied(c)
                \/ calls[c].st = "fail" /\ slices' = slices /\ error' = calls[c].msg]_vars

\* addToWatchlist or removeFromWatchlist returned true although its reload
\* was rejected: the watchlist is as it was before the write
C33_Witness ==
  /\ results[1] = ReturnedTrue
  /\ error = MessageOf("loadWatchlist", 2)
  /\ watchlist = << >>
  /\ ~watchlistLoading
  /\ \A c \in StoreCallIds : calls[c].pc = "idle"

\* no watchlist request is in flight or waits for its handler
WatchlistQuiet == \A c \in CallIds : Requester(c) # "loadWatchlist"

\* C34: after addToWatchlist or removeFromWatchlist, invocation n, has
\* returned true and every watchlist request has settled, watchlist holds
\* the response of a request issued after the write, request n; stated for
\* the behaviours in which no request has failed
C34_WatchlistAfterWrite ==
  \A n \in ReqIds :
     (results[n] = ReturnedTrue /\ WatchlistQuiet /\ error = NoError) =>
        \E k \in (n + 1)..reqSeq : watchlist = WatchlistItems(k)

\* C35: error is null after construction and changes only in a step that
\* handles a rejected request, to that rejection's message, which is not
\* null; every other step, the start and the success of every action
\* included, leaves it alone, so once set it is never null again
C35_ErrorNeverCleared ==
  /\ error = NoError
  /\ [][/\ error' # error =>
             \E c \in OneByOne : FailureHandled(c) /\ error' = calls[c].msg
        /\ error # NoError => error' # NoError]_vars

\* the first request was rejected and left its message in error; a later
\* loadWatchlist has succeeded and error still holds the message
C35_Witness ==
  /\ error # NoError
  /\ error[2] = 1
  /\ watchlist = WatchlistItems(2)
  /\ ~watchlistLoading
  /\ \A c \in OneByOne : calls[c].pc = "idle"

\* C36: scanPolling is true only while scanTask holds a record, and once
\* scanTask holds a record it never returns to null
C36_ScanTaskStays ==
  /\ [](scanPolling => scanTask # NoTask)
  /\ [][scanTask # NoTask => scanTask' # NoTask]_vars

\* a scan was started and its loop has ended; a later startScan was rejected
\* and scanTask still holds the record of the first
C36_Witness ==
  /\ scanTask # NoTask
  /\ ~scanPolling
  /\ ActiveLoops = {}
  /\ error # NoError
  /\ error[2] > scanTask.task_id
  /\ \A c \in CallIds : calls[c].pc = "idle"

\* the step starts testNotify in slot c or resumes it with its answer
TestNotifyStep(c) ==
  /\ Resumed(c)
  /\ calls[c].act = "testNotify" \/ calls'[c].act = "testNotify"

\* C37: every step of testNotify leaves error, every slice and every flag
\* unchanged; a rejected request is returned to the caller as the value
\* { success: false, message } and a fulfilled one as the response
C37_TestNotifyOutsideStore ==
  [][\A c \in OneByOne :
       TestNotifyStep(c) =>
          /\ error' = error
          /\ slices' = slices
          /\ flags' = flags
          /\ Rejected(c, "testNotify", "await") =>
               /\ results'[calls[c].inv] = NotifyFailure(calls[c].msg)
               /\ calls'[c].pc = "idle"
          /\ Fulfilled(c, "testNotify", "await") =>
               /\ results'[calls[c].inv] = NotifyResponse(calls[c].val)
               /\ calls'[c].pc = "idle"]_vars

\* the settings were loaded, then testNotify failed: the failure is in its
\* return value, error is null and the settings are as loaded
C37_Witness ==
  /\ results[2] = NotifyFailure(MessageOf("testNotify", 2))
  /\ error = NoError
  /\ settings = SettingsOf(1)
  /\ \A c \in OneByOne : calls[c].pc = "idle"

\* no kline load is in flight or waits for its handler
ChartQuiet == \A c \in CallIds : calls[c].act # "loadData"

\* C38: once every kline load has settled and the last one to settle
\* succeeded (no failure since the last load started, so the error ref is
\* still empty), klineData is the response for the component's current
\* code, also when the code changed while an earlier load was in flight
C38_ChartShowsCurrentCode ==
  (ChartQuiet /\ propsCode # 0 /\ chartError = NoChartError) =>
     klineData.code = propsCode

\* no search request is in flight or waits for its handler
SearchQuiet == \A c \in CallIds : calls[c].act # "search"

\* C39: at most one debounce timer is pending, and once the keyword is
\* blank and every pending timer and search request has settled,
\* searchResults is empty, also when a request was in flight when the
\* keyword was cleared
C39_ClearedSearchIsEmpty ==
  /\ searchTimers <= 1
  /\ (searchKeyword = 0 /\ searchTimers = 0 /\ SearchQuiet) => searchResults = << >>

====
